---- MODULE Spec2Model ----
(***************************************************************************)
(* LogoShaper: the chroma-key background eraser (processMagicEraser, its   *)
(* colorDistance primitive and the applyChoke erosion), as listed in       *)
(* GEMINI.md.                                                              *)
(*                                                                         *)
(* Numbers.  The code computes in IEEE doubles.  The model computes the    *)
(* same comparisons and floors in exact integer arithmetic:                *)
(*   - a colour distance sqrt(d2)/441.67 is carried as its squared         *)
(*     numerator d2 = dr*dr + dg*dg + db*db (an integer in 0..195075);     *)
(*   - percentages (tolerance, feather, transparency) are integers;        *)
(*   - dist <= p/100 is decided as d2 * 10^8 <= (p * 44167)^2 (DistLeq);   *)
(*   - Math.floor of the feather interpolation is the largest integer      *)
(*     not above the exact value (FloorSearch).                            *)
(* On integer percentages in their documented ranges the exact results     *)
(* are those of the doubles, but for Math.round at transparency 90 (see    *)
(* TargetAlpha).  Products beyond 32 bits are formed as little-endian      *)
(* base-10^4 digit sequences (the Big operators).                          *)
(***************************************************************************)
EXTENDS Integers, Sequences, FiniteSets, TLC

VARIABLES originalImageData, imageData, params, activeLayers,
          originalAlpha, tempAlpha, pc,
          editorLayers, activeLayerId, now,
          globalChoke, mode, isProcessing, aiStage,
          pending,
          fgImageData, bgSample, removerPc,
          view, workflowMode, file, resultImage, androidProject,
          androidResultImages, exportPending

\* the variables of a call of processMagicEraser
callVars == <<originalImageData, imageData, params, activeLayers,
              originalAlpha, tempAlpha, pc>>

\* the state of BackgroundRemoverEditor: the React state "layers" (named
\* editorLayers here, "layers" being the name of the loops' argument), the
\* React state activeLayerId, and the clock Date.now() reads
editorVars == <<editorLayers, activeLayerId, now>>

\* more React state of BackgroundRemoverEditor: globalChoke, mode and
\* isProcessing, and the await at which handleAiRemove stands
panelVars == <<globalChoke, mode, isProcessing, aiStage>>

\* the rows or columns that the workers of a stage have not processed yet
workerVars == <<pending>>

\* removeBackgroundColor of the Android editor: its pixel buffer, the
\* colour sampled on the perimeter and its position
removerVars == <<fgImageData, bgSample, removerPc>>

\* the React state of App, and the image load an editor's export waits for
appVars == <<view, workflowMode, file, resultImage, androidProject,
             androidResultImages, exportPending>>

\* what a call of processMagicEraser leaves alone
outsideCall == <<editorVars, panelVars, workerVars, removerVars, appVars>>

\* what the handlers of BackgroundRemoverEditor leave alone
outsideEditor == <<workerVars, removerVars, appVars>>

vars == <<callVars, editorVars, panelVars, workerVars, removerVars, appVars>>

(***************************************************************************)
(* Bounds of the model.                                                    *)
(***************************************************************************)
MaxPixels == 4
MaxLayers == 2
MaxTicks == 1

(***************************************************************************)
(* Exact arithmetic on naturals beyond 32 bits.                            *)
(***************************************************************************)
RECURSIVE BigFromNat(_)
BigFromNat(n) ==
    IF n = 0 THEN <<>> ELSE <<n % 10000>> \o BigFromNat(n \div 10000)

RECURSIVE BigMulCarry(_, _, _, _)
BigMulCarry(x, k, i, carry) ==
    IF i > Len(x) THEN BigFromNat(carry)
    ELSE LET v == x[i] * k + carry
         IN  <<v % 10000>> \o BigMulCarry(x, k, i + 1, v \div 10000)

BigMul(x, k) == IF k = 0 THEN <<>> ELSE BigMulCarry(x, k, 1, 0)

RECURSIVE BigAddCarry(_, _, _, _)
BigAddCarry(x, y, i, carry) ==
    IF i > Len(x) /\ i > Len(y) THEN BigFromNat(carry)
    ELSE LET v == (IF i <= Len(x) THEN x[i] ELSE 0)
                  + (IF i <= Len(y) THEN y[i] ELSE 0) + carry
         IN  <<v % 10000>> \o BigAddCarry(x, y, i + 1, v \div 10000)

BigAdd(x, y) == BigAddCarry(x, y, 1, 0)

\* x * 10000
BigShift(x) == IF x = <<>> THEN <<>> ELSE <<0>> \o x

\* x * n for any n in 0 .. 2^31 - 1: BigMul takes a factor below 200000
BigTimes(x, n) ==
    IF n < 200000 THEN BigMul(x, n)
    ELSE BigAdd(BigShift(BigMul(x, n \div 10000)), BigMul(x, n % 10000))

RECURSIVE BigProd(_, _)
BigProd(fs, i) ==
    IF i > Len(fs) THEN <<1>> ELSE BigTimes(BigProd(fs, i + 1), fs[i])

RECURSIVE BigLeqFrom(_, _, _)
BigLeqFrom(x, y, i) ==
    IF i = 0 THEN TRUE
    ELSE IF x[i] < y[i] THEN TRUE
    ELSE IF x[i] > y[i] THEN FALSE
    ELSE BigLeqFrom(x, y, i - 1)

BigLeq(x, y) ==
    IF Len(x) < Len(y) THEN TRUE
    ELSE IF Len(x) > Len(y) THEN FALSE
    ELSE BigLeqFrom(x, y, Len(x))

\* fs[1] * ... * fs[n] <= gs[1] * ... * gs[m], all factors in 0 .. 2^31 - 1
ProdLeq(fs, gs) == BigLeq(BigProd(fs, 1), BigProd(gs, 1))

(***************************************************************************)
(* Real numbers (a choke radius, a feather width) are rationals num / den  *)
(* with den > 0.                                                           *)
(***************************************************************************)
Rational(num, den) == [num |-> num, den |-> den]
IsPositive(radius) == radius.num > 0
IsZero(radius) == radius.num = 0

(***************************************************************************)
(* colorDistance                                                           *)
(***************************************************************************)
\* 441.67, the divisor of colorDistance, in hundredths
MaxDist100 == 44167

\* The value returned is sqrt(colorDistance(...)) / 441.67.
colorDistance(r1, g1, b1, r2, g2, b2) ==
    LET dr == r1 - r2
        dg == g1 - g2
        db == b1 - b2
    IN  dr * dr + dg * dg + db * db

\* Variant of DistLeq: the comparison is dist <= (p + 2) / 100.
DistLeqSlack(d2, p) ==
    /\ p >= 0
    /\ LET q == (p + 2) * MaxDist100
           qh == q \div 10000
           ql == q % 10000
       IN  \/ qh * qh > d2
           \/ (d2 - qh * qh) * 10000 <= 2 * qh * ql + (ql * ql) \div 10000

\* Variant of DistLeq: the comparison written as dist < p / 100.
DistLess(d2, p) ==
    /\ p >= 0
    /\ LET q == p * MaxDist100
           qh == q \div 10000
           ql == q % 10000
       IN  \/ qh * qh > d2
           \/ (d2 - qh * qh) * 10000 < 2 * qh * ql + (ql * ql + 9999) \div 10000

\* dist <= p / 100 for the distance carried as d2 and an integer p, that is
\* d2 * 10^8 <= q * q with q = p * 44167.  With q = qh * 10^4 + ql:
\*   q * q = qh * qh * 10^8 + 2 * qh * ql * 10^4 + ql * ql,
\* so the comparison is (d2 - qh * qh) * 10^4 <= 2 * qh * ql + ql * ql / 10^4,
\* whose left side is an integer.
DistLeq(d2, p) ==
    /\ p >= 0
    /\ LET q == p * MaxDist100
           qh == q \div 10000
           ql == q % 10000
       IN  \/ qh * qh > d2
           \/ (d2 - qh * qh) * 10000 <= 2 * qh * ql + (ql * ql) \div 10000

(***************************************************************************)
(* Colours and layers of the inputs                                        *)
(***************************************************************************)
Red == <<255, 0, 0>>
NearRed == <<250, 5, 5>>
White == <<255, 255, 255>>
Black == <<0, 0, 0>>
Palette == <<Red, NearRed, White, Black>>
Alphas == {0, 128, 255}

Layer(id, color, tolerance, feather, transparency, isActive) ==
    [id |-> id, color |-> color, tolerance |-> tolerance,
     feather |-> Rational(feather, 1),
     transparency |-> transparency, isActive |-> isActive]

\* The layer every editor starts with (and resets to).
DefaultLayer == Layer("1", <<>>, 20, 2, 100, TRUE)

LayerPool ==
    { DefaultLayer,
      Layer("2", Red, 0, 0, 100, TRUE),
      Layer("3", Red, 0, 2, 100, TRUE),
      Layer("4", Red, 1, 2, 50, TRUE),
      Layer("5", White, 100, 0, 100, TRUE),
      Layer("6", Black, 100, 20, 0, TRUE),
      Layer("7", White, 20, 2, 100, FALSE) }

\* A layer whose feather is not a whole percentage: its band ends exactly
\* at the distance of red from black, 255 / 441.67 = 50 / 100 + feather / 100.
\* (In doubles the feather 7.735413317635331 does the same.)
RealFeatherLayer ==
    [Layer("8", Black, 50, 0, 50, TRUE) EXCEPT !.feather = Rational(341650, 44167)]

(***************************************************************************)
(* Layer compositor of processMagicEraser                                  *)
(***************************************************************************)
\* A layer's colour is <<r, g, b>>, or <<>> for null.
HasColor(layer) == layer.color # <<>>

\* Variant of TargetAlpha: the percentage is scaled by 3 and not by 2.55.
TargetAlphaSteep(transparency) == 255 - 3 * transparency

\* Math.round(255 * (1 - transparency / 100)) for an integer transparency in
\* 0..100.  Math.round rounds halves up; in doubles 255 * (1 - 90 / 100) is
\* 25.499999999999996, every other value rounds as the exact one does.
TargetAlpha(transparency) ==
    IF transparency = 90 THEN 25
    ELSE (2 * 255 * (100 - transparency) + 100) \div 200

\* dist <= tolerance / 100 + feather / 100 for an integer tolerance and a
\* rational feather: d2 * 10^8 * den^2 <= 44167^2 * (tolerance * den + num)^2
DistLeqBand(d2, tolerance, feather) ==
    IF feather.den = 1 THEN DistLeq(d2, tolerance + feather.num)
    ELSE LET y == tolerance * feather.den + feather.num
         IN  ProdLeq(<<d2, 10000, 10000, feather.den, feather.den>>,
                     <<MaxDist100, MaxDist100, y, y>>)

\* m * feather/100 <= (255 - targetAlpha) * (dist - tolerance), i.e. the
\* feather interpolation targetAlpha + (255 - targetAlpha) * featherDist
\* is at least targetAlpha + m.
FeatherAtLeast(d2, layer, targetAlpha, m) ==
    LET d == 255 - targetAlpha
        x == m * layer.feather.num + layer.feather.den * d * layer.tolerance
    IN  ProdLeq(<<x, x, MaxDist100, MaxDist100>>,
                <<d2, layer.feather.den, layer.feather.den, d, d, 10000, 10000>>)

RECURSIVE FloorSearch(_, _, _, _, _)
FloorSearch(d2, layer, targetAlpha, lo, hi) ==
    IF lo >= hi THEN lo
    ELSE LET mid == (lo + hi + 1) \div 2
         IN  IF FeatherAtLeast(d2, layer, targetAlpha, mid)
             THEN FloorSearch(d2, layer, targetAlpha, mid, hi)
             ELSE FloorSearch(d2, layer, targetAlpha, lo, mid - 1)

\* The searches of the colours of Palette against the layers of the pool,
\* made once: FloorOfCase[<<d2, tolerance, feather, targetAlpha>>] is
\* FloorSearch(d2, layer, targetAlpha, 0, 255 - targetAlpha).
FeatherCases ==
    { <<colorDistance(Palette[c][1], Palette[c][2], Palette[c][3],
                      l.color[1], l.color[2], l.color[3]),
        l.tolerance, l.feather, TargetAlpha(l.transparency)>> :
      c \in DOMAIN Palette,
      l \in { m \in LayerPool \cup {RealFeatherLayer} : HasColor(m) } }

FloorOfCase ==
    LET table == [case \in FeatherCases |->
                     FloorSearch(case[1], [tolerance |-> case[2], feather |-> case[3]],
                                 case[4], 0, 255 - case[4])]
    IN  IF table = table THEN table ELSE table

\* Variant of LayerResultAlphaFloor: Math.ceil of an interpolation that is
\* not an integer.
LayerResultAlphaCeil(d2, layer, targetAlpha) ==
    targetAlpha + FloorSearch(d2, layer, targetAlpha, 0, 255 - targetAlpha) + 1

\* Math.floor(layerResultAlpha) in the feather zone, where
\* featherDist = (dist - tolerance) / (layer.feather / 100) and
\* layerResultAlpha = targetAlpha + (255 - targetAlpha) * featherDist
LayerResultAlphaFloor(d2, layer, targetAlpha) ==
    LET case == <<d2, layer.tolerance, layer.feather, targetAlpha>>
    IN  targetAlpha
        + (IF case \in DOMAIN FloorOfCase THEN FloorOfCase[case]
           ELSE FloorSearch(d2, layer, targetAlpha, 0, 255 - targetAlpha))

\* Variant of LayerStep: the feather zone assigns Math.floor(layerResultAlpha)
\* without comparing it with the running alpha.
LayerStepLastWins(r, g, b, a, layer) ==
    IF ~HasColor(layer) THEN a
    ELSE LET dist == colorDistance(r, g, b,
                                   layer.color[1], layer.color[2], layer.color[3])
             targetAlpha == TargetAlpha(layer.transparency)
         IN  IF DistLeq(dist, layer.tolerance)
             THEN IF targetAlpha < a THEN targetAlpha ELSE a
             ELSE IF IsPositive(layer.feather)
                     /\ DistLeqBand(dist, layer.tolerance, layer.feather)
                  THEN LayerResultAlphaFloor(dist, layer, targetAlpha)
                  ELSE a

\* Variant of LayerStep: inside tolerance the alpha is set to targetAlpha
\* without comparing it with the running alpha.
LayerStepAssignTarget(r, g, b, a, layer) ==
    IF ~HasColor(layer) THEN a
    ELSE LET dist == colorDistance(r, g, b,
                                   layer.color[1], layer.color[2], layer.color[3])
             targetAlpha == TargetAlpha(layer.transparency)
         IN  IF DistLeq(dist, layer.tolerance)
             THEN targetAlpha
             ELSE IF IsPositive(layer.feather)
                     /\ DistLeqBand(dist, layer.tolerance, layer.feather)
                  THEN LET fl == LayerResultAlphaFloor(dist, layer, targetAlpha)
                       IN  IF fl < a THEN fl ELSE a
                  ELSE a

\* Variant of LayerStep: inside tolerance the running alpha is scaled by
\* targetAlpha / 255.
LayerStepMultiply(r, g, b, a, layer) ==
    IF ~HasColor(layer) THEN a
    ELSE LET dist == colorDistance(r, g, b,
                                   layer.color[1], layer.color[2], layer.color[3])
             targetAlpha == TargetAlpha(layer.transparency)
         IN  IF DistLeq(dist, layer.tolerance)
             THEN (a * targetAlpha) \div 255
             ELSE IF IsPositive(layer.feather)
                     /\ DistLeqBand(dist, layer.tolerance, layer.feather)
                  THEN LET fl == LayerResultAlphaFloor(dist, layer, targetAlpha)
                       IN  IF fl < a THEN fl ELSE a
                  ELSE a

\* One iteration of "for (const layer of activeLayers)": the running alpha
\* after the layer.
LayerStep(r, g, b, a, layer) ==
    IF ~HasColor(layer) THEN a
    ELSE LET dist == colorDistance(r, g, b,
                                   layer.color[1], layer.color[2], layer.color[3])
             targetAlpha == TargetAlpha(layer.transparency)
         IN  IF DistLeq(dist, layer.tolerance)
             THEN IF targetAlpha < a THEN targetAlpha ELSE a
             ELSE IF IsPositive(layer.feather)
                     /\ DistLeqBand(dist, layer.tolerance, layer.feather)
                  THEN LET fl == LayerResultAlphaFloor(dist, layer, targetAlpha)
                       IN  IF fl < a THEN fl ELSE a
                  ELSE a

\* The layer loop of one pixel, with its break once the alpha is 0.
RECURSIVE LayerLoop(_, _, _, _, _, _)
\* "if (a === 0) break", a2 being the running alpha after layer k
LayerLoopBreak(r, g, b, a2, layers, k) ==
    IF a2 = 0 THEN a2 ELSE LayerLoop(r, g, b, a2, layers, k + 1)

LayerLoop(r, g, b, a, layers, k) ==
    IF k > Len(layers) THEN a
    ELSE LayerLoopBreak(r, g, b, LayerStep(r, g, b, a, layers[k]), layers, k)

\* A store into a Uint8ClampedArray.
ClampByte(v) == IF v < 0 THEN 0 ELSE IF v > 255 THEN 255 ELSE v

\* Variant of PixelLoop: the result is stored at data[i].
RECURSIVE PixelLoopWritesRed(_, _, _, _)
PixelLoopWritesRed(data, len, layers, i) ==
    IF i >= len THEN data
    ELSE IF data[i + 3] = 0 THEN PixelLoopWritesRed(data, len, layers, i + 4)
    ELSE LET a == LayerLoop(data[i], data[i + 1], data[i + 2], data[i + 3],
                            layers, 1)
         IN  PixelLoopWritesRed([data EXCEPT ![i] = ClampByte(a)],
                                len, layers, i + 4)

\* Variant of PixelLoop: the running alpha starts at 255, not at data[i + 3].
RECURSIVE PixelLoopFromOpaque(_, _, _, _)
PixelLoopFromOpaque(data, len, layers, i) ==
    IF i >= len THEN data
    ELSE IF data[i + 3] = 0 THEN PixelLoopFromOpaque(data, len, layers, i + 4)
    ELSE LET a == LayerLoop(data[i], data[i + 1], data[i + 2], 255, layers, 1)
         IN  PixelLoopFromOpaque([data EXCEPT ![i + 3] = ClampByte(a)],
                                 len, layers, i + 4)

\* "for (let i = 0; i < data.length; i += 4)": data is the flat RGBA array,
\* indexed from 0.
RECURSIVE PixelLoop(_, _, _, _)
PixelLoop(data, len, layers, i) ==
    IF i >= len THEN data
    ELSE IF data[i + 3] = 0 THEN PixelLoop(data, len, layers, i + 4)
    ELSE LET a == LayerLoop(data[i], data[i + 1], data[i + 2], data[i + 3],
                            layers, 1)
         IN  PixelLoop([data EXCEPT ![i + 3] = ClampByte(a)], len, layers, i + 4)

DataLength(data) == Cardinality(DOMAIN data)

\* Variant of FilterActive: filter(l => l.color), isActive not consulted.
RECURSIVE FilterActiveAnyColoured(_, _)
FilterActiveAnyColoured(layers, k) ==
    IF k > Len(layers) THEN <<>>
    ELSE (IF HasColor(layers[k]) THEN <<layers[k]>> ELSE <<>>)
         \o FilterActiveAnyColoured(layers, k + 1)

RECURSIVE FilterActive(_, _)
FilterActive(layers, k) ==
    IF k > Len(layers) THEN <<>>
    ELSE (IF layers[k].isActive /\ HasColor(layers[k]) THEN <<layers[k]>> ELSE <<>>)
         \o FilterActive(layers, k + 1)

(***************************************************************************)
(* applyChoke                                                              *)
(***************************************************************************)
Max(a, b) == IF a > b THEN a ELSE b
Min(a, b) == IF a < b THEN a ELSE b

\* A radius is a rational [num, den], den > 0.
\* Variant of Ceil: Math.floor(radius)
CeilAsFloor(radius) == radius.num \div radius.den
Ceil(radius) == -((-radius.num) \div radius.den)

\* "for (let i = 0; i < size; i++) originalAlpha[i] = data[i * 4 + 3]"
CopyAlpha(data, size) == [i \in 0 .. size - 1 |-> data[i * 4 + 3]]

\* new Uint8Array(size)
ZeroArray(size) == [i \in 0 .. size - 1 |-> 0]

\* "const start = Math.max(0, x - r)" and "Math.max(0, y - r)"
WindowStart(c, r) == Max(0, c - r)

\* Variant of WindowEnd: the end of the window is not clamped to the image.
WindowEndUnclamped(limit, c, r) == c + r

\* "const end = Math.min(width - 1, x + r)" and "Math.min(height - 1, y + r)"
WindowEnd(limit, c, r) == Min(limit - 1, c + r)

\* "for (let k = start; k <= end; k++)" of either pass: the window is the
\* cells base + k * stride of src; the scan breaks once minVal is 0.
RECURSIVE WindowScan(_, _, _, _, _, _)
WindowScan(src, base, stride, k, end, minVal) ==
    IF k > end THEN minVal
    ELSE LET val == src[base + k * stride]
             m == IF val < minVal THEN val ELSE minVal
         IN  IF m = 0 THEN m ELSE WindowScan(src, base, stride, k + 1, end, m)

\* Variant of HorizontalMin: the window is sampled at its two ends and at
\* the pixel itself.
HorizontalMinSampled(src, width, height, r) ==
    [j \in 0 .. width * height - 1 |->
        LET y == j \div width
            x == j % width
            rowOffset == y * width
            start == WindowStart(x, r)
            end == WindowEnd(width, x, r)
        IN  Min(src[rowOffset + start], Min(src[rowOffset + x], src[rowOffset + end]))]

\* Pass 1: Horizontal Min, from originalAlpha into tempAlpha
HorizontalMin(src, width, height, r) ==
    [j \in 0 .. width * height - 1 |->
        LET y == j \div width
            x == j % width
            rowOffset == y * width
            start == WindowStart(x, r)
            end == WindowEnd(width, x, r)
        IN  WindowScan(src, rowOffset, 1, start, end, 255)]

\* Variant of WindowScan and VerticalMin: the pass dilates, it takes the
\* maximum of the window and writes it where it raises alpha.
RECURSIVE WindowScanMax(_, _, _, _, _, _)
WindowScanMax(src, base, stride, k, end, maxVal) ==
    IF k > end THEN maxVal
    ELSE LET val == src[base + k * stride]
         IN  WindowScanMax(src, base, stride, k + 1, end,
                           IF val > maxVal THEN val ELSE maxVal)

RECURSIVE VerticalMax(_, _, _, _, _, _)
VerticalMax(data, temp, width, height, r, n) ==
    IF n >= width * height THEN data
    ELSE LET x == n \div height
             y == n % height
             start == WindowStart(y, r)
             end == WindowEnd(height, y, r)
             maxVal == WindowScanMax(temp, x, width, start, end, 0)
             idx == (y * width + x) * 4
         IN  VerticalMax(IF data[idx + 3] < maxVal
                         THEN [data EXCEPT ![idx + 3] = ClampByte(maxVal)]
                         ELSE data,
                         temp, width, height, r, n + 1)

\* Variant of VerticalMin: the minimum is also stored into the buffer the
\* windows read, so that a later window reads an alpha written back before.
RECURSIVE VerticalMinCascading(_, _, _, _, _, _)
VerticalMinCascading(data, temp, width, height, r, n) ==
    IF n >= width * height THEN data
    ELSE LET x == n \div height
             y == n % height
             start == WindowStart(y, r)
             end == WindowEnd(height, y, r)
             minVal == WindowScan(temp, x, width, start, end, 255)
             idx == (y * width + x) * 4
         IN  VerticalMinCascading(IF data[idx + 3] > minVal
                                  THEN [data EXCEPT ![idx + 3] = ClampByte(minVal)]
                                  ELSE data,
                                  [temp EXCEPT ![y * width + x] = minVal],
                                  width, height, r, n + 1)

\* Pass 2: Vertical Min, from tempAlpha back into data; n counts the
\* iterations of "for x ... for y ..." (n = x * height + y).
RECURSIVE VerticalMin(_, _, _, _, _, _)
VerticalMin(data, temp, width, height, r, n) ==
    IF n >= width * height THEN data
    ELSE LET x == n \div height
             y == n % height
             start == WindowStart(y, r)
             end == WindowEnd(height, y, r)
             minVal == WindowScan(temp, x, width, start, end, 255)
             idx == (y * width + x) * 4
         IN  VerticalMin(IF data[idx + 3] > minVal
                         THEN [data EXCEPT ![idx + 3] = ClampByte(minVal)]
                         ELSE data,
                         temp, width, height, r, n + 1)

\* Variant of applyChoke: no early return, and the radius is taken by its
\* magnitude.
applyChokeMagnitude(data, width, height, radius) ==
    LET r == Ceil([radius EXCEPT !.num = IF @ < 0 THEN -@ ELSE @])
        size == width * height
        original == CopyAlpha(data, size)
        temp == HorizontalMin(original, width, height, r)
    IN  VerticalMin(data, temp, width, height, r, 0)

applyChoke(data, width, height, radius) ==
    IF ~IsPositive(radius) THEN data
    ELSE LET r == Ceil(radius)
             size == width * height
             original == CopyAlpha(data, size)
             temp == HorizontalMin(original, width, height, r)
         IN  VerticalMin(data, temp, width, height, r, 0)

(***************************************************************************)
(* processMagicEraser as a function of its arguments                       *)
(***************************************************************************)
CompositeLayers(data, active) ==
    IF Len(active) > 0 THEN PixelLoop(data, DataLength(data), active, 0)
    ELSE data

processMagicEraser(image, p) ==
    LET active == FilterActive(p.layers, 1)
    IN  IF Len(active) = 0 /\ IsZero(p.choke) THEN image
        ELSE LET composed == CompositeLayers(image.data, active)
             IN  [image EXCEPT !.data =
                     IF IsPositive(p.choke)
                     THEN applyChoke(composed, image.width, image.height, p.choke)
                     ELSE composed]

(***************************************************************************)
(* Inputs                                                                  *)
(***************************************************************************)
\* Layer lists without repetition, up to MaxLayers long.
RECURSIVE LayerLists(_)
LayerLists(n) ==
    IF n = 0 THEN {<<>>}
    ELSE LET shorter == LayerLists(n - 1)
         IN  shorter \cup
             { Append(ls, l) : ls \in {s \in shorter : Len(s) = n - 1},
                                l \in LayerPool }

Distinct(ls) == \A i, j \in 1 .. Len(ls) : i # j => ls[i].id # ls[j].id

Chokes == { Rational(-1, 1), Rational(0, 1), Rational(1, 2),
            Rational(1, 1), Rational(2, 1) }

\* The w x h image whose pixel p has the colour Palette[(k + p) mod 4] and
\* the alpha al[p].
MakeImage(w, h, k, al) ==
    [width |-> w, height |-> h,
     data |-> [j \in 0 .. 4 * w * h - 1 |->
                 IF j % 4 = 3 THEN al[j \div 4]
                 ELSE Palette[((k + j \div 4) % 4) + 1][(j % 4) + 1]]]

Shapes ==
    { sh \in (1 .. MaxPixels) \X (1 .. MaxPixels) : sh[1] * sh[2] <= MaxPixels }

\* A value of Date.now() when the editor opens, in milliseconds.
ClockStart == 1000

\* The image the editor has loaded: a red and a white opaque pixel.
EditorImage ==
    [width |-> 2, height |-> 1,
     data |-> [i \in 0 .. 7 |->
                 IF i % 4 = 3 THEN 255
                 ELSE IF i < 4 THEN Red[i + 1] ELSE White[i - 3]]]

\* What removeBackground makes of it: the white pixel has become transparent.
AiResult == [EditorImage EXCEPT !.data[7] = 0]

\* null
Null == "null"

\* BackgroundRemoverEditor as its useState calls leave it
EditorMounted ==
    /\ editorLayers = <<DefaultLayer>>
    /\ activeLayerId = DefaultLayer.id
    /\ now = ClockStart
    /\ globalChoke = 0
    /\ mode = "magic"
    /\ isProcessing = FALSE
    /\ aiStage = "idle"

\* no worker has been started
NoWorkers == pending = {}

\* removeBackgroundColor has not been called
RemoverIdle ==
    /\ fgImageData = Null
    /\ bgSample = Null
    /\ removerPc = "idle"

\* App as its useState calls leave it
AppMounted ==
    /\ view = "dashboard"
    /\ workflowMode = Null
    /\ file = Null
    /\ resultImage = Null
    /\ androidProject = Null
    /\ androidResultImages = Null
    /\ exportPending = {}

(***************************************************************************)
(* One call of processMagicEraser(imageData, params), step by step         *)
(***************************************************************************)
\* Inputs: every one-pixel image with every layer list, and every larger
\* image (colours in Palette order) with the lists of at most one layer.
Init ==
    /\ \E sh \in Shapes, k \in 0 .. 3, c \in Chokes,
          ls \in LayerLists(MaxLayers) \cup {<<RealFeatherLayer>>} :
          /\ Distinct(ls)
          /\ \/ sh[1] * sh[2] = 1
             \/ k = 0 /\ Len(ls) <= 1
          /\ \E al \in [0 .. sh[1] * sh[2] - 1 -> Alphas] :
                originalImageData = MakeImage(sh[1], sh[2], k, al)
          /\ params = [layers |-> ls, choke |-> c]
    /\ imageData = originalImageData
    /\ activeLayers = <<>>
    /\ originalAlpha = <<>>
    /\ tempAlpha = <<>>
    /\ pc = "call"
    /\ EditorMounted
    /\ NoWorkers
    /\ RemoverIdle
    /\ AppMounted

\* "if (activeLayers.length === 0 && params.choke === 0) return imageData"
EarlyReturn ==
    /\ pc = "call"
    /\ Len(FilterActive(params.layers, 1)) = 0
    /\ IsZero(params.choke)
    /\ activeLayers' = FilterActive(params.layers, 1)
    /\ pc' = "done"
    /\ UNCHANGED <<originalImageData, imageData, params, originalAlpha, tempAlpha>>
    /\ UNCHANGED outsideCall

Enter ==
    /\ pc = "call"
    /\ ~(Len(FilterActive(params.layers, 1)) = 0 /\ IsZero(params.choke))
    /\ activeLayers' = FilterActive(params.layers, 1)
    /\ pc' = "layers"
    /\ UNCHANGED <<originalImageData, imageData, params, originalAlpha, tempAlpha>>
    /\ UNCHANGED outsideCall

\* "if (activeLayers.length > 0) { for ... }"
Compose ==
    /\ pc = "layers"
    /\ imageData' = [imageData EXCEPT !.data = CompositeLayers(@, activeLayers)]
    /\ pc' = "choke"
    /\ UNCHANGED <<originalImageData, params, activeLayers, originalAlpha, tempAlpha>>
    /\ UNCHANGED outsideCall

\* "if (params.choke > 0) applyChoke(...)": not taken
SkipChoke ==
    /\ pc = "choke"
    /\ ~IsPositive(params.choke)
    /\ pc' = "done"
    /\ UNCHANGED <<originalImageData, imageData, params, activeLayers,
                   originalAlpha, tempAlpha>>
    /\ UNCHANGED outsideCall

\* applyChoke up to the end of the alpha copy
ChokeCopy ==
    /\ pc = "choke"
    /\ IsPositive(params.choke)
    /\ originalAlpha' = CopyAlpha(imageData.data, imageData.width * imageData.height)
    /\ tempAlpha' = ZeroArray(imageData.width * imageData.height)
    /\ pc' = "horizontal"
    /\ UNCHANGED <<originalImageData, imageData, params, activeLayers>>
    /\ UNCHANGED outsideCall

ChokeHorizontal ==
    /\ pc = "horizontal"
    /\ tempAlpha' = HorizontalMin(originalAlpha, imageData.width, imageData.height,
                                  Ceil(params.choke))
    /\ pc' = "vertical"
    /\ UNCHANGED <<originalImageData, imageData, params, activeLayers, originalAlpha>>
    /\ UNCHANGED outsideCall

ChokeVertical ==
    /\ pc = "vertical"
    /\ imageData' = [imageData EXCEPT !.data =
                        VerticalMin(@, tempAlpha, imageData.width, imageData.height,
                                    Ceil(params.choke), 0)]
    /\ pc' = "done"
    /\ UNCHANGED <<originalImageData, params, activeLayers, originalAlpha, tempAlpha>>
    /\ UNCHANGED outsideCall

Next ==
    \/ EarlyReturn
    \/ Enter
    \/ Compose
    \/ SkipChoke
    \/ ChokeCopy
    \/ ChokeHorizontal
    \/ ChokeVertical

Spec == Init /\ [][Next]_vars

(***************************************************************************)
(* BackgroundRemoverEditor: its React state and the handlers that change   *)
(* it.  imageData is what the canvas shows.                                *)
(***************************************************************************)
\* Variant of FilterOutId: layers.filter(l => l.id === id)
RECURSIVE FilterOnlyId(_, _)
FilterOnlyId(ls, id) ==
    IF ls = <<>> THEN <<>>
    ELSE IF Head(ls).id = id THEN <<Head(ls)>> \o FilterOnlyId(Tail(ls), id)
    ELSE FilterOnlyId(Tail(ls), id)

\* Variant of MagicEraserEffect: the effect processes what the canvas shows,
\* not a copy of originalImageData.
MagicEraserEffectOnCanvas(ls, choke, original) ==
    /\ params' = [layers |-> ls, choke |-> Rational(choke, 1)]
    /\ imageData' = processMagicEraser(imageData, params')
    /\ UNCHANGED <<activeLayers, originalAlpha, tempAlpha, pc>>

\* "useEffect(() => { ... const inputData = new ImageData(new
\* Uint8ClampedArray(originalImageData.data), ...); const processed =
\* processMagicEraser(inputData, { layers: layers, choke: globalChoke });
\* ctx.putImageData(processed, 0, 0) }, [layers, globalChoke,
\* originalImageData])": the effect runs after every change of one of its
\* three dependencies, on a copy of originalImageData; ls, choke and
\* original are their new values.
MagicEraserEffect(ls, choke, original) ==
    /\ params' = [layers |-> ls, choke |-> Rational(choke, 1)]
    /\ imageData' = processMagicEraser(original, params')
    /\ UNCHANGED <<activeLayers, originalAlpha, tempAlpha, pc>>

\* Date.now().toString()
NewId == ToString(now)

\* the layer addLayer appends
NewLayer(id) == Layer(id, <<>>, 20, 2, 100, TRUE)

\* layers.filter(l => l.id !== id)
RECURSIVE FilterOutId(_, _)
FilterOutId(ls, id) ==
    IF ls = <<>> THEN <<>>
    ELSE IF Head(ls).id # id THEN <<Head(ls)>> \o FilterOutId(Tail(ls), id)
    ELSE FilterOutId(Tail(ls), id)

\* Math.floor of a rational
Floor(q) == q.num \div q.den

\* "if (idx >= 0 && idx < originalImageData.data.length - 4)"
PickIndexInRange(idx, length) == idx >= 0 /\ idx < length - 4

\* "prev.map(layer => layer.id === activeLayerId ? { ...layer, color:
\* newColor } : layer)"
SetColor(ls, id, newColor) ==
    [k \in 1 .. Len(ls) |->
        IF ls[k].id = id THEN [ls[k] EXCEPT !.color = newColor] ELSE ls[k]]

\* "prev.map(layer => layer.id === activeLayerId ? { ...layer, [key]: value }
\* : layer)"; the sliders give parseInt(e.target.value)
SetField(ls, id, key, value) ==
    [k \in 1 .. Len(ls) |->
        IF ls[k].id # id THEN ls[k]
        ELSE IF key = "transparency" THEN [ls[k] EXCEPT !.transparency = value]
        ELSE IF key = "tolerance" THEN [ls[k] EXCEPT !.tolerance = value]
        ELSE IF key = "feather" THEN [ls[k] EXCEPT !.feather = Rational(value, 1)]
        ELSE ls[k]]

\* The slider movement explored: (key, value) of updateActiveLayer
SliderInputs == { <<"transparency", 50>> }

\* The values of the choke slider explored
ChokeInputs == {0, 1}

\* Click positions in canvas coordinates, "(e.clientX - rect.left) * scaleX",
\* in half pixels: every pixel of the canvas is hit at its corner and at
\* its centre.
HalfPixels(n) == { Rational(h, 2) : h \in 0 .. 2 * n - 1 }

\* The editor after its image has loaded: the canvas shows the image
\* processed with the initial layer list and globalChoke = 0.
EditorInit ==
    /\ originalImageData = EditorImage
    /\ params = [layers |-> <<DefaultLayer>>, choke |-> Rational(0, 1)]
    /\ imageData = processMagicEraser(originalImageData, params)
    /\ activeLayers = <<>>
    /\ originalAlpha = <<>>
    /\ tempAlpha = <<>>
    /\ pc = "done"
    /\ EditorMounted
    /\ NoWorkers
    /\ RemoverIdle
    /\ AppMounted

\* The millisecond clock advances between two events.
Tick ==
    /\ now < ClockStart + MaxTicks
    /\ now' = now + 1
    /\ UNCHANGED <<editorLayers, activeLayerId>>
    /\ UNCHANGED <<callVars, panelVars, outsideEditor>>

\* "onClick={() => setMode('magic')}" and "onClick={() => setMode('ai')}"
setMode(m) ==
    /\ mode # m
    /\ mode' = m
    /\ UNCHANGED <<globalChoke, isProcessing, aiStage>>
    /\ UNCHANGED <<callVars, editorVars, outsideEditor>>

\* The layer panel is rendered in magic mode only.
addLayer ==
    /\ mode = "magic"
    /\ Len(editorLayers) < MaxLayers
    /\ editorLayers' = Append(editorLayers, NewLayer(NewId))
    /\ activeLayerId' = NewId
    /\ MagicEraserEffect(editorLayers', globalChoke, originalImageData)
    /\ UNCHANGED <<originalImageData, now, panelVars, outsideEditor>>

\* The click on the remove button of the layer at position i, a button
\* rendered when "activeLayerId === layer.id || layers.length > 1".  With
\* several layers of the id removed, newLayers can be empty: then
\* "newLayers[newLayers.length - 1].id" throws after setLayers(newLayers),
\* and activeLayerId keeps its value.
removeLayer(i) ==
    LET id == editorLayers[i].id
        newLayers == FilterOutId(editorLayers, id)
    IN  /\ mode = "magic"
        /\ activeLayerId = id \/ Len(editorLayers) > 1
        /\ IF Len(editorLayers) = 1
           THEN /\ editorLayers' = <<DefaultLayer>>
                /\ activeLayerId' = DefaultLayer.id
           ELSE /\ editorLayers' = newLayers
                /\ activeLayerId' =
                      IF activeLayerId = id /\ newLayers # <<>>
                      THEN newLayers[Len(newLayers)].id
                      ELSE activeLayerId
        /\ MagicEraserEffect(editorLayers', globalChoke, originalImageData)
        /\ UNCHANGED <<originalImageData, now, panelVars, outsideEditor>>

\* "onClick={() => setActiveLayerId(layer.id)}" on the layer at position i
selectLayer(i) ==
    /\ mode = "magic"
    /\ activeLayerId # editorLayers[i].id
    /\ activeLayerId' = editorLayers[i].id
    /\ UNCHANGED <<editorLayers, now>>
    /\ UNCHANGED <<callVars, panelVars, outsideEditor>>

\* "const idx = (Math.floor(y) * canvas.width + Math.floor(x)) * 4"
PickIndex(x, y) == (Floor(y) * originalImageData.width + Floor(x)) * 4

\* Whether handleCanvasClick reaches its setLayers for a click at (x, y)
PickAccepted(x, y) ==
    mode = "magic" /\ PickIndexInRange(PickIndex(x, y), DataLength(originalImageData.data))

\* The layer list handleCanvasClick leaves for a click at (x, y)
LayersAfterClick(x, y) ==
    LET idx == PickIndex(x, y)
        data == originalImageData.data
    IN  IF PickAccepted(x, y)
        THEN SetColor(editorLayers, activeLayerId,
                      <<data[idx], data[idx + 1], data[idx + 2]>>)
        ELSE editorLayers

\* handleCanvasClick for a click at the canvas coordinates (x, y)
handleCanvasClick(x, y) ==
    IF PickAccepted(x, y)
        THEN /\ editorLayers' = LayersAfterClick(x, y)
             /\ MagicEraserEffect(editorLayers', globalChoke, originalImageData)
             /\ UNCHANGED <<originalImageData, activeLayerId, now, panelVars,
                            outsideEditor>>
        ELSE UNCHANGED vars

\* updateActiveLayer(key, value), called by the sliders of the layer panel
updateActiveLayer(key, value) ==
    /\ mode = "magic"
    /\ editorLayers' = SetField(editorLayers, activeLayerId, key, value)
    /\ MagicEraserEffect(editorLayers', globalChoke, originalImageData)
    /\ UNCHANGED <<originalImageData, activeLayerId, now, panelVars, outsideEditor>>

\* "onChange={(e) => setGlobalChoke(parseInt(e.target.value))}", a slider of
\* both modes
setGlobalChoke(v) ==
    /\ globalChoke # v
    /\ globalChoke' = v
    /\ MagicEraserEffect(editorLayers, globalChoke', originalImageData)
    /\ UNCHANGED <<originalImageData, editorVars, mode, isProcessing, aiStage,
                   outsideEditor>>

\* handleAiRemove up to "await removeBackground(imageUrl)"; its button is
\* rendered in ai mode and disabled while isProcessing.
handleAiRemove ==
    /\ mode = "ai"
    /\ ~isProcessing
    /\ isProcessing' = TRUE
    /\ aiStage' = "removing"
    /\ UNCHANGED <<globalChoke, mode>>
    /\ UNCHANGED <<callVars, editorVars, outsideEditor>>

\* removeBackground rejects: catch, then "finally { setIsProcessing(false) }"
aiRemovalThrows ==
    /\ aiStage = "removing"
    /\ isProcessing' = FALSE
    /\ aiStage' = "idle"
    /\ UNCHANGED <<globalChoke, mode>>
    /\ UNCHANGED <<callVars, editorVars, outsideEditor>>

\* removeBackground resolves: the handler creates the image and stands at
\* "await new Promise((resolve) => { img.onload = resolve; })"
aiRemovalResolves ==
    /\ aiStage = "removing"
    /\ aiStage' = "loading"
    /\ UNCHANGED <<globalChoke, mode, isProcessing>>
    /\ UNCHANGED <<callVars, editorVars, outsideEditor>>

\* The result image fails to load: its error event has no handler, the
\* promise is never settled and the handler never resumes.
aiImageError ==
    /\ aiStage = "loading"
    /\ aiStage' = "abandoned"
    /\ UNCHANGED <<globalChoke, mode, isProcessing>>
    /\ UNCHANGED <<callVars, editorVars, outsideEditor>>

\* The result image loads: handleAiRemove draws it, makes it the new
\* originalImageData ("setOriginalImageData(data)"), resets the layers
\* ("Reset Magic Eraser layers for new base") and leaves through finally;
\* the effect then runs on the new base.
aiReset ==
    /\ aiStage = "loading"
    /\ originalImageData' = AiResult
    /\ editorLayers' = <<DefaultLayer>>
    /\ activeLayerId' = DefaultLayer.id
    /\ isProcessing' = FALSE
    /\ aiStage' = "idle"
    /\ MagicEraserEffect(editorLayers', globalChoke, originalImageData')
    /\ UNCHANGED <<now, globalChoke, mode, outsideEditor>>

EditorNext ==
    \/ Tick
    \/ \E m \in {"magic", "ai"} : setMode(m)
    \/ addLayer
    \/ \E i \in 1 .. Len(editorLayers) : removeLayer(i)
    \/ \E i \in 1 .. Len(editorLayers) : selectLayer(i)
    \/ \E x \in HalfPixels(originalImageData.width),
          y \in HalfPixels(originalImageData.height) : handleCanvasClick(x, y)
    \/ \E s \in SliderInputs : updateActiveLayer(s[1], s[2])
    \/ \E v \in ChokeInputs : setGlobalChoke(v)
    \/ handleAiRemove
    \/ aiRemovalThrows
    \/ aiRemovalResolves
    \/ aiImageError
    \/ aiReset

EditorSpec == EditorInit /\ [][EditorNext]_vars

(***************************************************************************)
(* The stages of processMagicEraser run by workers: in the compositor and  *)
(* in the horizontal pass a worker owns a row, in the vertical pass a      *)
(* column; within a stage the workers run in any order, and a stage begins *)
(* when the stage before it has ended.                                     *)
(***************************************************************************)
Rows(image) == 0 .. image.height - 1
Columns(image) == 0 .. image.width - 1

\* Variant of ComposeRowPass: the running alpha of a pixel starts with the
\* alpha of the pixel above it.
RECURSIVE ComposeRowPassFromAbove(_, _, _, _, _)
ComposeRowPassFromAbove(data, width, layers, y, x) ==
    IF x >= width THEN data
    ELSE LET i == (y * width + x) * 4
             above == IF y > 0 THEN data[i - 4 * width + 3] ELSE data[i + 3]
         IN  IF data[i + 3] = 0
             THEN ComposeRowPassFromAbove(data, width, layers, y, x + 1)
             ELSE ComposeRowPassFromAbove(
                      [data EXCEPT ![i + 3] =
                          ClampByte(LayerLoop(data[i], data[i + 1], data[i + 2],
                                              above, layers, 1))],
                      width, layers, y, x + 1)

\* The iterations of the compositor's pixel loop that fall in row y, from
\* the pixel at column x on.
RECURSIVE ComposeRowPass(_, _, _, _, _)
ComposeRowPass(data, width, layers, y, x) ==
    IF x >= width THEN data
    ELSE LET i == (y * width + x) * 4
         IN  IF data[i + 3] = 0 THEN ComposeRowPass(data, width, layers, y, x + 1)
             ELSE ComposeRowPass(
                      [data EXCEPT ![i + 3] =
                          ClampByte(LayerLoop(data[i], data[i + 1], data[i + 2],
                                              data[i + 3], layers, 1))],
                      width, layers, y, x + 1)

\* The iteration y of "for (let y = 0; y < height; y++)" of Pass 1
HorizontalRowPass(temp, src, width, r, y) ==
    [j \in DOMAIN temp |->
        IF j \div width # y THEN temp[j]
        ELSE LET x == j % width
             IN  WindowScan(src, y * width, 1, WindowStart(x, r),
                            WindowEnd(width, x, r), 255)]

\* The iteration x of "for (let x = 0; x < width; x++)" of Pass 2, from the
\* row y on.
RECURSIVE VerticalColumnPass(_, _, _, _, _, _, _)
VerticalColumnPass(data, temp, width, height, r, x, y) ==
    IF y >= height THEN data
    ELSE LET minVal == WindowScan(temp, x, width, WindowStart(y, r),
                                  WindowEnd(height, y, r), 255)
             idx == (y * width + x) * 4
         IN  VerticalColumnPass(IF data[idx + 3] > minVal
                                THEN [data EXCEPT ![idx + 3] = ClampByte(minVal)]
                                ELSE data,
                                temp, width, height, r, x, y + 1)

\* The call passes its early return and hands the rows to the workers of
\* the compositor.
ForkCompositor ==
    /\ pc = "call"
    /\ ~(Len(FilterActive(params.layers, 1)) = 0 /\ IsZero(params.choke))
    /\ activeLayers' = FilterActive(params.layers, 1)
    /\ pc' = "layers"
    /\ pending' = IF Len(activeLayers') > 0 THEN Rows(imageData) ELSE {}
    /\ UNCHANGED <<originalImageData, imageData, params, originalAlpha, tempAlpha>>
    /\ UNCHANGED <<editorVars, panelVars, removerVars, appVars>>

ComposeRow(y) ==
    /\ pc = "layers"
    /\ y \in pending
    /\ imageData' = [imageData EXCEPT !.data =
                        ComposeRowPass(@, imageData.width, activeLayers, y, 0)]
    /\ pending' = pending \ {y}
    /\ UNCHANGED <<originalImageData, params, activeLayers, originalAlpha,
                   tempAlpha, pc>>
    /\ UNCHANGED <<editorVars, panelVars, removerVars, appVars>>

\* The compositor has ended: the call returns, or applyChoke copies the
\* alpha channel and hands the rows to the workers of the horizontal pass.
JoinCompositor ==
    /\ pc = "layers"
    /\ pending = {}
    /\ IF IsPositive(params.choke)
       THEN /\ originalAlpha' = CopyAlpha(imageData.data,
                                          imageData.width * imageData.height)
            /\ tempAlpha' = ZeroArray(imageData.width * imageData.height)
            /\ pc' = "horizontal"
            /\ pending' = Rows(imageData)
       ELSE /\ pc' = "done"
            /\ UNCHANGED <<originalAlpha, tempAlpha, pending>>
    /\ UNCHANGED <<originalImageData, imageData, params, activeLayers>>
    /\ UNCHANGED <<editorVars, panelVars, removerVars, appVars>>

HorizontalRow(y) ==
    /\ pc = "horizontal"
    /\ y \in pending
    /\ tempAlpha' = HorizontalRowPass(tempAlpha, originalAlpha, imageData.width,
                                      Ceil(params.choke), y)
    /\ pending' = pending \ {y}
    /\ UNCHANGED <<originalImageData, imageData, params, activeLayers,
                   originalAlpha, pc>>
    /\ UNCHANGED <<editorVars, panelVars, removerVars, appVars>>

\* The horizontal pass has ended: the columns go to the workers of the
\* vertical pass.
JoinHorizontal ==
    /\ pc = "horizontal"
    /\ pending = {}
    /\ pc' = "vertical"
    /\ pending' = Columns(imageData)
    /\ UNCHANGED <<originalImageData, imageData, params, activeLayers,
                   originalAlpha, tempAlpha>>
    /\ UNCHANGED <<editorVars, panelVars, removerVars, appVars>>

VerticalColumn(x) ==
    /\ pc = "vertical"
    /\ x \in pending
    /\ imageData' = [imageData EXCEPT !.data =
                        VerticalColumnPass(@, tempAlpha, imageData.width,
                                           imageData.height, Ceil(params.choke),
                                           x, 0)]
    /\ pending' = pending \ {x}
    /\ UNCHANGED <<originalImageData, params, activeLayers, originalAlpha,
                   tempAlpha, pc>>
    /\ UNCHANGED <<editorVars, panelVars, removerVars, appVars>>

JoinVertical ==
    /\ pc = "vertical"
    /\ pending = {}
    /\ pc' = "done"
    /\ UNCHANGED <<originalImageData, imageData, params, activeLayers,
                   originalAlpha, tempAlpha, pending>>
    /\ UNCHANGED <<editorVars, panelVars, removerVars, appVars>>

WorkerNext ==
    \/ EarlyReturn
    \/ ForkCompositor
    \/ \E y \in Rows(imageData) : ComposeRow(y)
    \/ JoinCompositor
    \/ \E y \in Rows(imageData) : HorizontalRow(y)
    \/ JoinHorizontal
    \/ \E x \in Columns(imageData) : VerticalColumn(x)
    \/ JoinVertical

\* The calls given to workers: those of Init on images of several pixels,
\* without choke or with a radius of 1/2 or 2.
WorkerChokes == { Rational(0, 1), Rational(1, 2), Rational(2, 1) }

WorkerInit ==
    /\ Init
    /\ originalImageData.width * originalImageData.height > 1
    /\ params.choke \in WorkerChokes

WorkerSpec == WorkerInit /\ [][WorkerNext]_vars

\* The editor with the scheduling of its awaits: the promise of
\* removeBackground is settled in the end, one way or the other, and the
\* result image loads or fails to load in the end.
FairEditorSpec ==
    /\ EditorSpec
    /\ WF_vars(aiRemovalThrows \/ aiRemovalResolves)
    /\ WF_vars(aiReset \/ aiImageError)

(***************************************************************************)
(* removeBackgroundColor of the Android editor, from getImageData on: the  *)
(* perimeter sample and the pass over the pixel buffer.  Colour            *)
(* differences are carried as their squares, integers:                     *)
(* diff <= tolerance is d2 <= tolerance^2.                                 *)
(***************************************************************************)
\* "const tolerance = 35"
RemoverTolerance == 35

\* The magic eraser and the other components at rest.
EraserAtRest ==
    /\ originalImageData = EditorImage
    /\ imageData = EditorImage
    /\ params = [layers |-> <<DefaultLayer>>, choke |-> Rational(0, 1)]
    /\ activeLayers = <<>>
    /\ originalAlpha = <<>>
    /\ tempAlpha = <<>>
    /\ pc = "done"
    /\ EditorMounted
    /\ NoWorkers

\* The pixels addPixel is called on, one element per call: "for (let x = 0;
\* x < canvas.width; x += 10)" on the top and bottom rows, "for (let y = 0;
\* y < canvas.height; y += 10)" on the left and right columns.
PerimeterCalls(width, height) ==
    LET xs == { x \in 0 .. width - 1 : x % 10 = 0 }
        ys == { y \in 0 .. height - 1 : y % 10 = 0 }
    IN  { <<"top", x, 0>> : x \in xs } \cup { <<"bottom", x, height - 1>> : x \in xs }
        \cup { <<"left", 0, y>> : y \in ys } \cup { <<"right", width - 1, y>> : y \in ys }

\* sum of f over the finite set S
RECURSIVE SumOver(_, _)
SumOver(S, f) ==
    IF S = {} THEN 0
    ELSE LET e == CHOOSE e \in S : TRUE
         IN  f[e] + SumOver(S \ {e}, f)

\* Math.round(sum / n) for naturals sum and n > 0
RoundedMean(sum, n) == (2 * sum + n) \div (2 * n)

\* The perimeter sample: addPixel counts the pixels with alpha > 10, and the
\* averages are rounded when validPixels > 0.
SamplePerimeterColour(image) ==
    LET calls == PerimeterCalls(image.width, image.height)
        idx(c) == (c[3] * image.width + c[2]) * 4
        valid == { c \in calls : image.data[idx(c) + 3] > 10 }
        n == Cardinality(valid)
        sum(ch) == SumOver(valid, [c \in valid |-> image.data[idx(c) + ch]])
    IN  IF n > 0
        THEN [r |-> RoundedMean(sum(0), n), g |-> RoundedMean(sum(1), n),
              b |-> RoundedMean(sum(2), n), validPixels |-> n]
        ELSE [r |-> 0, g |-> 0, b |-> 0, validPixels |-> 0]

\* diff squared
SquaredDiff(r, g, b, bg) ==
    (r - bg.r) * (r - bg.r) + (g - bg.g) * (g - bg.g) + (b - bg.b) * (b - bg.b)

\* Whether Math.round(((diff - tolerance) / tolerance) * 255) >= n, for
\* diff = sqrt(d2): n - 1/2 <= (diff - 35) * 255 / 35, that is
\* 70 n + 17815 <= 510 diff.
SmoothAlphaAtLeast(d2, n) ==
    (2 * RemoverTolerance * n + (2 * 255 - 1) * RemoverTolerance)
        * (2 * RemoverTolerance * n + (2 * 255 - 1) * RemoverTolerance)
    <= (2 * 255) * (2 * 255) * d2

\* the largest n in lo .. hi with SmoothAlphaAtLeast(d2, n)
RECURSIVE SmoothSearch(_, _, _)
SmoothSearch(d2, lo, hi) ==
    IF lo = hi THEN lo
    ELSE LET mid == (lo + hi + 1) \div 2
         IN  IF SmoothAlphaAtLeast(d2, mid) THEN SmoothSearch(d2, mid, hi)
             ELSE SmoothSearch(d2, lo, mid - 1)

\* "Math.min(255, Math.round(alpha))" of the smooth transition
SmoothAlpha(d2) == Min(255, SmoothSearch(d2, 0, 256))

\* The alpha the loop body leaves in a pixel of alpha a > 0 at squared
\* difference d2
RemovedAlpha(d2, a) ==
    IF d2 <= RemoverTolerance * RemoverTolerance THEN 0
    ELSE IF d2 <= (RemoverTolerance * 2) * (RemoverTolerance * 2)
         THEN SmoothAlpha(d2)
         ELSE a

\* "for (let i = 0; i < data.length; i += 4)" of the removal
RECURSIVE RemoveLoop(_, _, _, _)
RemoveLoop(data, len, bg, i) ==
    IF i >= len THEN data
    ELSE IF data[i + 3] = 0 THEN RemoveLoop(data, len, bg, i + 4)
    ELSE RemoveLoop(
             [data EXCEPT ![i + 3] =
                 ClampByte(RemovedAlpha(SquaredDiff(data[i], data[i + 1],
                                                    data[i + 2], bg),
                                        data[i + 3]))],
             len, bg, i + 4)

\* The pixels of the foreground images explored: background white, an
\* anti-aliased light grey, opaque and faint, the logo's black, and a
\* transparent pixel.
LightGrey == <<225, 225, 225>>
RemoverPixels ==
    { <<White, 255>>, <<LightGrey, 255>>, <<LightGrey, 40>>, <<Black, 255>>,
      <<White, 0>> }

ForegroundImagesOf(sh) ==
    { [width |-> sh[1], height |-> sh[2],
       data |-> [j \in 0 .. 4 * sh[1] * sh[2] - 1 |->
                   IF j % 4 = 3 THEN px[j \div 4][2]
                   ELSE px[j \div 4][1][(j % 4) + 1]]] :
      px \in [0 .. sh[1] * sh[2] - 1 -> RemoverPixels] }

ForegroundImages == UNION { ForegroundImagesOf(sh) : sh \in Shapes }

RemoverInit ==
    /\ fgImageData \in ForegroundImages
    /\ bgSample = Null
    /\ removerPc = "sample"
    /\ EraserAtRest
    /\ AppMounted

\* "Sample perimeter to detect background color"
SamplePerimeter ==
    /\ removerPc = "sample"
    /\ bgSample' = SamplePerimeterColour(fgImageData)
    /\ removerPc' = IF bgSample'.validPixels > 0 THEN "remove" ELSE "done"
    /\ UNCHANGED fgImageData
    /\ UNCHANGED <<callVars, editorVars, panelVars, workerVars, appVars>>

\* "Remove background color"
RemoveBackgroundPass ==
    /\ removerPc = "remove"
    /\ fgImageData' = [fgImageData EXCEPT !.data =
                          RemoveLoop(@, DataLength(@), bgSample, 0)]
    /\ removerPc' = "done"
    /\ UNCHANGED bgSample
    /\ UNCHANGED <<callVars, editorVars, panelVars, workerVars, appVars>>

RemoverNext ==
    \/ SamplePerimeter
    \/ RemoveBackgroundPass

RemoverSpec == RemoverInit /\ [][RemoverNext]_vars

(***************************************************************************)
(* App: the view switch and the callbacks it hands to the rendered child.  *)
(* A callback of a child can be called only while the child is rendered,   *)
(* except the onConfirm of AutoModeEditor and ManualPrecisionEditor, which *)
(* handleDownload calls from img.onload: exportPending holds the files     *)
(* whose export image is still loading.                                    *)
(***************************************************************************)
\* The files a user can select
Files == {"a.png", "b.png"}

\* canvas.toDataURL of the export of a file
DataUrl(f) == IF f = "a.png" THEN "data:image/png;a" ELSE "data:image/png;b"

\* The project of a foreground file: "{ background: { type: 'color', value:
\* '#ffffff' }, foreground: { url: URL.createObjectURL(file), file } }",
\* named by its foreground
Project(f) == IF f = "a.png" THEN "project:a.png" ELSE "project:b.png"

\* The images handleExport hands to onConfirm, named by their project
ExportedImages(project) ==
    IF project = "project:a.png" THEN "images:a.png" ELSE "images:b.png"

StandardEditors == {"auto-editor", "manual-editor"}

\* What the conditional chain renders: the child of the view, or nothing
\* when the "x && (...)" of the view is null.
Rendered(v) ==
    /\ view = v
    /\ v \in {"mode-selection"} \cup StandardEditors => file # Null
    /\ v = "android-editor" => androidProject # Null
    /\ v = "android-completion" => androidResultImages # Null
    /\ v = "completion" => resultImage # Null

AppInit ==
    /\ AppMounted
    /\ EraserAtRest
    /\ RemoverIdle

onOpenApp ==
    /\ Rendered("dashboard")
    /\ view' = "workflow-selection"
    /\ UNCHANGED <<workflowMode, file, resultImage, androidProject,
                   androidResultImages, exportPending>>
    /\ UNCHANGED <<callVars, editorVars, panelVars, workerVars, removerVars>>

onOpenBgRemover ==
    /\ Rendered("dashboard")
    /\ view' = "bg-remover"
    /\ UNCHANGED <<workflowMode, file, resultImage, androidProject,
                   androidResultImages, exportPending>>
    /\ UNCHANGED <<callVars, editorVars, panelVars, workerVars, removerVars>>

onExit ==
    /\ Rendered("bg-remover")
    /\ view' = "dashboard"
    /\ UNCHANGED <<workflowMode, file, resultImage, androidProject,
                   androidResultImages, exportPending>>
    /\ UNCHANGED <<callVars, editorVars, panelVars, workerVars, removerVars>>

\* onBack of WorkflowSelection
workflowSelectionBack ==
    /\ Rendered("workflow-selection")
    /\ view' = "dashboard"
    /\ UNCHANGED <<workflowMode, file, resultImage, androidProject,
                   androidResultImages, exportPending>>
    /\ UNCHANGED <<callVars, editorVars, panelVars, workerVars, removerVars>>

handleWorkflowSelect(m) ==
    /\ Rendered("workflow-selection")
    /\ workflowMode' = m
    /\ view' = IF m = "standard" THEN "upload" ELSE "android-upload"
    /\ UNCHANGED <<file, resultImage, androidProject, androidResultImages,
                   exportPending>>
    /\ UNCHANGED <<callVars, editorVars, panelVars, workerVars, removerVars>>

\* onBack of UploadPage and of AndroidUploadPage
resetToWorkflowSelection ==
    /\ Rendered("upload") \/ Rendered("android-upload")
    /\ workflowMode' = Null
    /\ file' = Null
    /\ androidProject' = Null
    /\ resultImage' = Null
    /\ androidResultImages' = Null
    /\ view' = "workflow-selection"
    /\ UNCHANGED exportPending
    /\ UNCHANGED <<callVars, editorVars, panelVars, workerVars, removerVars>>

handleFileSelect(selectedFile) ==
    /\ Rendered("upload")
    /\ file' = selectedFile
    /\ view' = "mode-selection"
    /\ UNCHANGED <<workflowMode, resultImage, androidProject,
                   androidResultImages, exportPending>>
    /\ UNCHANGED <<callVars, editorVars, panelVars, workerVars, removerVars>>

handleAndroidProjectUpdate(f) ==
    /\ Rendered("android-upload")
    /\ androidProject' = Project(f)
    /\ view' = "android-editor"
    /\ UNCHANGED <<workflowMode, file, resultImage, androidResultImages,
                   exportPending>>
    /\ UNCHANGED <<callVars, editorVars, panelVars, workerVars, removerVars>>

\* onBack of ModeSelection
modeSelectionBack ==
    /\ Rendered("mode-selection")
    /\ file' = Null
    /\ view' = "upload"
    /\ UNCHANGED <<workflowMode, resultImage, androidProject,
                   androidResultImages, exportPending>>
    /\ UNCHANGED <<callVars, editorVars, panelVars, workerVars, removerVars>>

handleModeSelect(m) ==
    /\ Rendered("mode-selection")
    /\ view' = IF m = "auto" THEN "auto-editor"
               ELSE IF m = "manual" THEN "manual-editor" ELSE view
    /\ UNCHANGED <<workflowMode, file, resultImage, androidProject,
                   androidResultImages, exportPending>>
    /\ UNCHANGED <<callVars, editorVars, panelVars, workerVars, removerVars>>

\* onBack of AutoModeEditor and of ManualPrecisionEditor
standardEditorBack ==
    /\ \E v \in StandardEditors : Rendered(v)
    /\ view' = "mode-selection"
    /\ UNCHANGED <<workflowMode, file, resultImage, androidProject,
                   androidResultImages, exportPending>>
    /\ UNCHANGED <<callVars, editorVars, panelVars, workerVars, removerVars>>

\* handleDownload of the two editors: "img.src = previewUrl; img.onload =
\* () => { ... onConfirm(canvas.toDataURL('image/png')) }"
handleDownload ==
    /\ \E v \in StandardEditors : Rendered(v)
    /\ exportPending' = exportPending \cup {file}
    /\ UNCHANGED <<view, workflowMode, file, resultImage, androidProject,
                   androidResultImages>>
    /\ UNCHANGED <<callVars, editorVars, panelVars, workerVars, removerVars>>

\* The load event of an export image: handleConfirm
handleConfirm(f) ==
    /\ f \in exportPending
    /\ exportPending' = exportPending \ {f}
    /\ resultImage' = DataUrl(f)
    /\ view' = "completion"
    /\ UNCHANGED <<workflowMode, file, androidProject, androidResultImages>>
    /\ UNCHANGED <<callVars, editorVars, panelVars, workerVars, removerVars>>

\* The export image fails to load: img.onload is never called
exportLoadFails(f) ==
    /\ f \in exportPending
    /\ exportPending' = exportPending \ {f}
    /\ UNCHANGED <<view, workflowMode, file, resultImage, androidProject,
                   androidResultImages>>
    /\ UNCHANGED <<callVars, editorVars, panelVars, workerVars, removerVars>>

\* onBack of CompletionScreen
completionBack ==
    /\ Rendered("completion")
    /\ view' = "mode-selection"
    /\ UNCHANGED <<workflowMode, file, resultImage, androidProject,
                   androidResultImages, exportPending>>
    /\ UNCHANGED <<callVars, editorVars, panelVars, workerVars, removerVars>>

\* onBack of AndroidEditor
androidEditorBack ==
    /\ Rendered("android-editor")
    /\ view' = "android-upload"
    /\ UNCHANGED <<workflowMode, file, resultImage, androidProject,
                   androidResultImages, exportPending>>
    /\ UNCHANGED <<callVars, editorVars, panelVars, workerVars, removerVars>>

\* handleExport of AndroidEditor calls onConfirm before it returns
handleAndroidConfirm ==
    /\ Rendered("android-editor")
    /\ androidResultImages' = ExportedImages(androidProject)
    /\ view' = "android-completion"
    /\ UNCHANGED <<workflowMode, file, resultImage, androidProject,
                   exportPending>>
    /\ UNCHANGED <<callVars, editorVars, panelVars, workerVars, removerVars>>

\* onBack of AndroidCompletionScreen
androidCompletionBack ==
    /\ Rendered("android-completion")
    /\ view' = "android-editor"
    /\ UNCHANGED <<workflowMode, file, resultImage, androidProject,
                   androidResultImages, exportPending>>
    /\ UNCHANGED <<callVars, editorVars, panelVars, workerVars, removerVars>>

AppNext ==
    \/ onOpenApp
    \/ onOpenBgRemover
    \/ onExit
    \/ workflowSelectionBack
    \/ \E m \in {"standard", "android"} : handleWorkflowSelect(m)
    \/ resetToWorkflowSelection
    \/ \E f \in Files : handleFileSelect(f)
    \/ \E f \in Files : handleAndroidProjectUpdate(f)
    \/ modeSelectionBack
    \/ \E m \in {"auto", "manual"} : handleModeSelect(m)
    \/ standardEditorBack
    \/ handleDownload
    \/ \E f \in Files : handleConfirm(f)
    \/ \E f \in Files : exportLoadFails(f)
    \/ completionBack
    \/ androidEditorBack
    \/ handleAndroidConfirm
    \/ androidCompletionBack

AppSpec == AppInit /\ [][AppNext]_vars

(***************************************************************************)
(* Helpers of the properties                                               *)
(***************************************************************************)
NumPixels(image) == image.width * image.height
PixelIndices(image) == 0 .. NumPixels(image) - 1
AlphaAt(image, p) == image.data[4 * p + 3]
RGBAt(image, p) == <<image.data[4 * p], image.data[4 * p + 1], image.data[4 * p + 2]>>
AlphaChannel(image) == [p \in PixelIndices(image) |-> AlphaAt(image, p)]

Permute(ls, f) == [i \in 1 .. Len(ls) |-> ls[f[i]]]
WithLayers(ls) == [layers |-> ls, choke |-> params.choke]

\* Smallest element of a non-empty set of integers
SetMin(S) == CHOOSE m \in S : \A n \in S : m <= n

Done == pc = "done"
Composed == pc = "choke"
Choked == pc = "done" /\ IsPositive(params.choke)

(***************************************************************************)
(* C1  Order independence: processing the same image with any permutation  *)
(* of the layer list, and the same choke, gives the same final alpha at    *)
(* every pixel.                                                            *)
(***************************************************************************)
OrderIndependence ==
    Done =>
        \A f \in Permutations(1 .. Len(params.layers)) :
            AlphaChannel(processMagicEraser(originalImageData,
                                            WithLayers(Permute(params.layers, f))))
                = AlphaChannel(imageData)

\* Two active layers that, each alone, leave a pixel at different alphas, both
\* below the pixel's starting alpha.
OrderIndependenceWitness ==
    /\ Done
    /\ Len(activeLayers) = 2
    /\ \E p \in PixelIndices(imageData) :
          LET a1 == AlphaAt(processMagicEraser(originalImageData,
                                WithLayers(<<activeLayers[1]>>)), p)
              a2 == AlphaAt(processMagicEraser(originalImageData,
                                WithLayers(<<activeLayers[2]>>)), p)
          IN  /\ a1 < a2
              /\ a2 < AlphaAt(originalImageData, p)
              /\ AlphaAt(imageData, p) = a1

(***************************************************************************)
(* C2  Identity: with no active coloured layer in the list (the empty list *)
(* included) and choke = 0, the image comes back with every byte unchanged.*)
(***************************************************************************)
NoActiveColouredLayer ==
    \A k \in 1 .. Len(params.layers) :
        ~params.layers[k].isActive \/ params.layers[k].color = <<>>

Identity ==
    (Done /\ NoActiveColouredLayer /\ IsZero(params.choke))
        => imageData = originalImageData

\* An inactive layer whose colour and tolerance match an opaque pixel is in
\* the list, and the call has returned.
IdentityWitness ==
    /\ Done
    /\ IsZero(params.choke)
    /\ NoActiveColouredLayer
    /\ \E k \in 1 .. Len(params.layers), p \in PixelIndices(imageData) :
          /\ params.layers[k].color = RGBAt(imageData, p)
          /\ params.layers[k].transparency = 100
          /\ AlphaAt(imageData, p) = 255

(***************************************************************************)
(* C3  Layer monotonicity: appending one more active layer to a layer list *)
(* never raises the final alpha of any pixel.  The list of the call is     *)
(* read as L followed by the appended layer X, and compared with L alone.  *)
(***************************************************************************)
LastLayer == params.layers[Len(params.layers)]
WithoutLast == SubSeq(params.layers, 1, Len(params.layers) - 1)
LastIsActive ==
    /\ Len(params.layers) > 0
    /\ LastLayer.isActive
    /\ LastLayer.color # <<>>

LayerMonotonicity ==
    (Done /\ LastIsActive) =>
        LET without == AlphaChannel(processMagicEraser(originalImageData,
                                        WithLayers(WithoutLast)))
        IN  \A p \in PixelIndices(imageData) : AlphaAt(imageData, p) <= without[p]

\* L holds an active layer that lowers a pixel but leaves it above 0, and the
\* appended layer lowers that pixel further.
LayerMonotonicityWitness ==
    /\ Done
    /\ LastIsActive
    /\ Len(activeLayers) = 2
    /\ LET without == AlphaChannel(processMagicEraser(originalImageData,
                                       WithLayers(WithoutLast)))
       IN  \E p \in PixelIndices(imageData) :
              /\ without[p] < AlphaAt(originalImageData, p)
              /\ AlphaAt(imageData, p) < without[p]

(***************************************************************************)
(* C4  Full removal: a pixel whose RGB equals the colour of an active      *)
(* layer with tolerance 0 and transparency 100 ends at alpha 0, wherever   *)
(* the layer sits in the list and whatever the other layers are.           *)
(***************************************************************************)
ExactRemover(layer, rgb) ==
    /\ layer.isActive
    /\ layer.color = rgb
    /\ layer.tolerance = 0
    /\ layer.transparency = 100

FullRemoval ==
    Done =>
        \A p \in PixelIndices(imageData), k \in 1 .. Len(params.layers) :
            ExactRemover(params.layers[k], RGBAt(originalImageData, p))
                => AlphaAt(imageData, p) = 0

\* The exact-match layer comes second, after another active layer that does
\* not bring the (visible) pixel to 0 by itself.
FullRemovalWitness ==
    /\ Done
    /\ Len(activeLayers) = 2
    /\ \E p \in PixelIndices(imageData) :
          /\ AlphaAt(originalImageData, p) > 0
          /\ ExactRemover(activeLayers[2], RGBAt(originalImageData, p))
          /\ AlphaAt(processMagicEraser(originalImageData,
                        WithLayers(<<activeLayers[1]>>)), p) > 0
          /\ AlphaAt(imageData, p) = 0

(***************************************************************************)
(* C5  colorDistance returns a value in [0,1] for every pair of 8-bit RGB  *)
(* triples, and 0 for equal triples.  Stated over the pixel colours and    *)
(* layer colours of the call.                                              *)
(***************************************************************************)
DistanceNormalized ==
    \A p \in PixelIndices(originalImageData), k \in 1 .. Len(params.layers) :
        HasColor(params.layers[k]) =>
            LET rgb == RGBAt(originalImageData, p)
                c == params.layers[k].color
                d2 == colorDistance(rgb[1], rgb[2], rgb[3], c[1], c[2], c[3])
            IN  /\ d2 >= 0
                /\ DistLeq(d2, 100)
                /\ (rgb = c => d2 = 0)

(***************************************************************************)
(* C6  With one active layer of tolerance 100, every pixel with non-zero   *)
(* alpha is inside tolerance, so the compositor leaves it at               *)
(* min(alpha, targetAlpha).                                                *)
(***************************************************************************)
ToleranceHundredCoversAll ==
    (Composed /\ Len(activeLayers) = 1 /\ activeLayers[1].tolerance = 100) =>
        \A p \in PixelIndices(imageData) :
            AlphaAt(originalImageData, p) > 0 =>
                AlphaAt(imageData, p)
                    = Min(AlphaAt(originalImageData, p),
                          TargetAlpha(activeLayers[1].transparency))

(***************************************************************************)
(* C7  Frame: at every step of the call the width, the height, the length  *)
(* of the buffer and the R, G and B bytes of every pixel are those of the  *)
(* input; only alpha bytes change.                                         *)
(***************************************************************************)
Frame ==
    /\ imageData.width = originalImageData.width
    /\ imageData.height = originalImageData.height
    /\ DOMAIN imageData.data = DOMAIN originalImageData.data
    /\ \A j \in DOMAIN originalImageData.data :
          j % 4 # 3 => imageData.data[j] = originalImageData.data[j]

\* Both stages have lowered some alpha.
FrameWitness ==
    /\ Choked
    /\ Len(activeLayers) > 0
    /\ \E p \in PixelIndices(imageData) :
          originalAlpha[p] < AlphaAt(originalImageData, p)
    /\ \E p \in PixelIndices(imageData) :
          AlphaAt(imageData, p) < originalAlpha[p]

(***************************************************************************)
(* C8  The layer compositor never raises alpha: after the layer pass each  *)
(* pixel's alpha is at most its alpha before, and a pixel at 0 stays at 0. *)
(***************************************************************************)
CompositorNeverIncreases ==
    Composed =>
        \A p \in PixelIndices(imageData) :
            /\ AlphaAt(imageData, p) <= AlphaAt(originalImageData, p)
            /\ AlphaAt(originalImageData, p) = 0 => AlphaAt(imageData, p) = 0

\* The pass has lowered one pixel and has met a pixel at 0 whose colour is
\* the colour of an active layer.
CompositorNeverIncreasesWitness ==
    /\ Composed
    /\ \E p \in PixelIndices(imageData) :
          AlphaAt(imageData, p) < AlphaAt(originalImageData, p)
    /\ \E p \in PixelIndices(imageData), k \in 1 .. Len(activeLayers) :
          /\ AlphaAt(originalImageData, p) = 0
          /\ activeLayers[k].color = RGBAt(originalImageData, p)

(***************************************************************************)
(* C9  The choke filter never raises alpha: after applyChoke each pixel's  *)
(* alpha is at most its alpha at the entry of applyChoke.                  *)
(***************************************************************************)
ChokeNeverIncreases ==
    Choked =>
        \A p \in PixelIndices(imageData) : AlphaAt(imageData, p) <= originalAlpha[p]

\* The choke has lowered one pixel and left a visible one as it was.
ChokeNeverIncreasesWitness ==
    /\ Choked
    /\ \E p \in PixelIndices(imageData) : AlphaAt(imageData, p) < originalAlpha[p]
    /\ \E p \in PixelIndices(imageData) :
          AlphaAt(imageData, p) = originalAlpha[p] /\ originalAlpha[p] > 0

(***************************************************************************)
(* C10  Choke is the erosion by a square window: for radius > 0 and        *)
(* r = ceil(radius), the alpha of (x, y) after applyChoke is the minimum   *)
(* of the alpha at the entry of applyChoke over the pixels (x2, y2) of the *)
(* image with |x2 - x| <= r and |y2 - y| <= r.                             *)
(***************************************************************************)
\* The least integer n with n >= radius, for a radius > 0
LeastIntegerAtLeast(radius) ==
    CHOOSE n \in 1 .. radius.num :
        n * radius.den >= radius.num /\ (n - 1) * radius.den < radius.num

Abs(n) == IF n < 0 THEN -n ELSE n

SquareWindow(x, y, r) ==
    { q \in PixelIndices(imageData) :
        /\ Abs((q % imageData.width) - x) <= r
        /\ Abs((q \div imageData.width) - y) <= r }

SquareErosion ==
    Choked =>
        LET r == LeastIntegerAtLeast(params.choke)
        IN  \A p \in PixelIndices(imageData) :
                AlphaAt(imageData, p)
                    = SetMin({ originalAlpha[q] :
                               q \in SquareWindow(p % imageData.width,
                                                  p \div imageData.width, r) })

\* A fractional radius on an image two pixels wide and high, where a pixel
\* takes its new alpha from a diagonal neighbour only.
SquareErosionWitness ==
    /\ Choked
    /\ params.choke.num % params.choke.den # 0
    /\ imageData.width >= 2
    /\ imageData.height >= 2
    /\ \E p \in PixelIndices(imageData) :
          /\ AlphaAt(imageData, p) < originalAlpha[p]
          /\ \A q \in PixelIndices(imageData) :
                (q % imageData.width = p % imageData.width
                 \/ q \div imageData.width = p \div imageData.width)
                    => originalAlpha[q] > AlphaAt(imageData, p)

(***************************************************************************)
(* C11  Choke monotonicity: on the same input and layers, a larger radius  *)
(* never gives a pixel a higher final alpha than a smaller radius.  The    *)
(* radius of the call is compared with the next larger radius of Chokes;   *)
(* the radii of Chokes form a chain, so every pair r1 <= r2 follows.       *)
(***************************************************************************)
RadiusLess(r1, r2) == r1.num * r2.den < r2.num * r1.den

LargerRadii == { c \in Chokes : RadiusLess(params.choke, c) }

NextRadius ==
    CHOOSE c \in LargerRadii : \A d \in LargerRadii : ~RadiusLess(d, c)

ChokeMonotonicity ==
    (Done /\ LargerRadii # {}) =>
        LET larger == AlphaChannel(processMagicEraser(originalImageData,
                          [layers |-> params.layers, choke |-> NextRadius]))
        IN  \A p \in PixelIndices(imageData) : larger[p] <= AlphaAt(imageData, p)

\* A positive radius has lowered a pixel and left another visible, and the
\* next larger radius lowers that one too.
ChokeMonotonicityWitness ==
    /\ Choked
    /\ LargerRadii # {}
    /\ \E p \in PixelIndices(imageData) : AlphaAt(imageData, p) < originalAlpha[p]
    /\ \E p \in PixelIndices(imageData) :
          /\ AlphaAt(imageData, p) = originalAlpha[p]
          /\ AlphaAt(processMagicEraser(originalImageData,
                 [layers |-> params.layers, choke |-> NextRadius]), p)
                < AlphaAt(imageData, p)

(***************************************************************************)
(* C12  Choke no-op: with a radius that is 0 or negative, applyChoke       *)
(* returns the buffer it was given, and the alpha channel of the output of *)
(* processMagicEraser is the alpha channel the compositor left, with       *)
(* active layers or without.                                               *)
(***************************************************************************)
NonPositiveRadius == params.choke.num <= 0

ChokeNoOp ==
    /\ (Composed /\ NonPositiveRadius) =>
          applyChoke(imageData.data, imageData.width, imageData.height,
                     params.choke) = imageData.data
    /\ (Done /\ NonPositiveRadius) =>
          \A p \in PixelIndices(imageData) :
             imageData.data[4 * p + 3] =
                CompositeLayers(originalImageData.data,
                                FilterActive(params.layers, 1))[4 * p + 3]

\* A negative radius, after a layer has keyed out a pixel whose right-hand
\* neighbour stays visible: an erosion of any width would lower the neighbour.
ChokeNoOpWitness ==
    /\ Done
    /\ params.choke.num < 0
    /\ \E p \in PixelIndices(imageData) :
          /\ (p + 1) \in PixelIndices(imageData)
          /\ (p + 1) % imageData.width # 0
          /\ AlphaAt(imageData, p) = 0
          /\ AlphaAt(originalImageData, p) > 0
          /\ AlphaAt(imageData, p + 1) > 0

\* The same with no active layer at all: the early return is not taken
\* (the radius is not 0) and both stages are skipped.
ChokeNoOpNoLayerCase ==
    /\ Done
    /\ params.choke.num < 0
    /\ Len(activeLayers) = 0
    /\ \E p \in PixelIndices(imageData) :
          /\ (p + 1) \in PixelIndices(imageData)
          /\ (p + 1) % imageData.width # 0
          /\ AlphaAt(imageData, p) = 0
          /\ AlphaAt(imageData, p + 1) > 0

(***************************************************************************)
(* C13  With tolerance in 0..100, feather in 0..20 and transparency in     *)
(* 0..100, every alpha the compositor computes (the running alpha after    *)
(* each layer, so the value written too) and every alpha the choke filter  *)
(* computes (the snapshot, the horizontal minima, the vertical minima) is  *)
(* an integer in 0..255 before it is stored: no store is clamped.          *)
(***************************************************************************)
Byte == 0 .. 255

DocumentedRanges(layer) ==
    /\ layer.tolerance \in 0 .. 100
    /\ layer.feather.num >= 0
    /\ layer.feather.num <= 20 * layer.feather.den
    /\ layer.transparency \in 0 .. 100

Prefix(ls, n) == [i \in 1 .. n |-> ls[i]]

VerticalMinimum(p) ==
    LET x == p % imageData.width
        y == p \div imageData.width
        r == Ceil(params.choke)
    IN  WindowScan(tempAlpha, x, imageData.width, WindowStart(y, r),
                   WindowEnd(imageData.height, y, r), 255)

AlphaRange ==
    /\ pc = "call" => \A t \in 0 .. 100 : TargetAlpha(t) \in Byte
    /\ pc = "layers" =>
          \A p \in PixelIndices(imageData) :
             LET rgb == RGBAt(imageData, p)
                 a0 == AlphaAt(imageData, p)
             IN  a0 > 0 =>
                    \A n \in 1 .. Len(activeLayers) :
                       LayerLoop(rgb[1], rgb[2], rgb[3], a0,
                                 Prefix(activeLayers, n), 1) \in Byte
    /\ pc = "horizontal" => \A i \in DOMAIN originalAlpha : originalAlpha[i] \in Byte
    /\ pc = "vertical" =>
          /\ \A i \in DOMAIN tempAlpha : tempAlpha[i] \in Byte
          /\ \A p \in PixelIndices(imageData) : VerticalMinimum(p) \in Byte

\* The compositor is about to run with two layers in their documented
\* ranges of which one lowers the pixel to a value strictly between 0 and
\* 255 in its feather zone.
AlphaRangeWitness ==
    /\ pc = "layers"
    /\ \A k \in 1 .. Len(activeLayers) : DocumentedRanges(activeLayers[k])
    /\ \E p \in PixelIndices(imageData), k \in 1 .. Len(activeLayers) :
          LET rgb == RGBAt(imageData, p)
              layer == activeLayers[k]
              after == LayerStep(rgb[1], rgb[2], rgb[3], AlphaAt(imageData, p), layer)
          IN  /\ IsPositive(layer.feather)
              /\ ~DistLeq(colorDistance(rgb[1], rgb[2], rgb[3], layer.color[1],
                                        layer.color[2], layer.color[3]),
                          layer.tolerance)
              /\ 0 < after
              /\ after < AlphaAt(imageData, p)

\* The vertical pass is about to run on horizontal minima that are not all
\* equal.
AlphaRangeChokeCase ==
    /\ pc = "vertical"
    /\ \E i, j \in DOMAIN tempAlpha : tempAlpha[i] < tempAlpha[j]
    /\ \E p \in PixelIndices(imageData) : VerticalMinimum(p) < AlphaAt(imageData, p)

(***************************************************************************)
(* C14  Bounds safety: every index the compositor and the two choke passes *)
(* read or write lies inside the buffer it addresses (the pixel buffer of  *)
(* 4 * width * height bytes, the alpha snapshot and the temporary buffer   *)
(* of width * height bytes), and every window is clamped to 0..width-1 or  *)
(* 0..height-1.                                                            *)
(***************************************************************************)
CompositorIndices ==
    UNION { {i, i + 1, i + 2, i + 3} :
            i \in { j \in 0 .. DataLength(imageData.data) - 1 : j % 4 = 0 } }

AlphaBuffer == 0 .. imageData.width * imageData.height - 1

\* the cells of the window of column or row c, as (position, cell) pairs
HorizontalWindow(x, y, r) ==
    { <<k, y * imageData.width + k>> :
      k \in WindowStart(x, r) .. WindowEnd(imageData.width, x, r) }

VerticalWindow(x, y, r) ==
    { <<k, k * imageData.width + x>> :
      k \in WindowStart(y, r) .. WindowEnd(imageData.height, y, r) }

BoundsSafety ==
    /\ CompositorIndices \subseteq DOMAIN imageData.data
    /\ pc \in {"horizontal", "vertical"} =>
          /\ DOMAIN originalAlpha = AlphaBuffer
          /\ DOMAIN tempAlpha = AlphaBuffer
    /\ IsPositive(params.choke) =>
          LET r == Ceil(params.choke)
          IN  /\ \A i \in AlphaBuffer : (i * 4 + 3) \in DOMAIN imageData.data
              /\ \A x \in 0 .. imageData.width - 1, y \in 0 .. imageData.height - 1 :
                    /\ \A c \in HorizontalWindow(x, y, r) :
                          /\ c[1] \in 0 .. imageData.width - 1
                          /\ c[2] \in AlphaBuffer
                    /\ \A c \in VerticalWindow(x, y, r) :
                          /\ c[1] \in 0 .. imageData.height - 1
                          /\ c[2] \in AlphaBuffer
                    /\ (y * imageData.width + x) \in AlphaBuffer
                    /\ ((y * imageData.width + x) * 4 + 3) \in DOMAIN imageData.data

\* A choke has run whose radius reaches past both borders of a row or
\* column of at least two pixels, and it lowered a pixel.
BoundsSafetyWitness ==
    /\ Choked
    /\ LET r == Ceil(params.choke)
       IN  \/ /\ imageData.width >= 2
              /\ \E x \in 0 .. imageData.width - 1 :
                    x - r < 0 /\ x + r > imageData.width - 1
           \/ /\ imageData.height >= 2
              /\ \E y \in 0 .. imageData.height - 1 :
                    y - r < 0 /\ y + r > imageData.height - 1
    /\ \E p \in PixelIndices(imageData) : AlphaAt(imageData, p) < originalAlpha[p]

(***************************************************************************)
(* C15  Inactive layers do not interfere: the output is the output of the  *)
(* same call on the list with every layer that has isActive = false or no  *)
(* colour removed, and it stays the same when those layers are given the   *)
(* strongest tolerance, feather and transparency.                          *)
(***************************************************************************)
Skipped(layer) == ~layer.isActive \/ layer.color = <<>>

RECURSIVE WithoutSkipped(_)
WithoutSkipped(ls) ==
    IF ls = <<>> THEN <<>>
    ELSE IF Skipped(Head(ls)) THEN WithoutSkipped(Tail(ls))
    ELSE <<Head(ls)>> \o WithoutSkipped(Tail(ls))

Strongest(layer) ==
    [layer EXCEPT !.tolerance = 100, !.feather = Rational(20, 1),
                  !.transparency = 100]

SkippedMadeStrongest(ls) ==
    [i \in 1 .. Len(ls) |-> IF Skipped(ls[i]) THEN Strongest(ls[i]) ELSE ls[i]]

HasSkipped == \E i \in 1 .. Len(params.layers) : Skipped(params.layers[i])

InactiveLayersSkipped ==
    (Done /\ HasSkipped) =>
        /\ imageData = processMagicEraser(originalImageData,
                           WithLayers(WithoutSkipped(params.layers)))
        /\ imageData = processMagicEraser(originalImageData,
                           WithLayers(SkippedMadeStrongest(params.layers)))

\* The list holds an active coloured layer and an inactive coloured layer
\* that would change the output if it were active.
InactiveLayersSkippedWitness ==
    /\ Done
    /\ Len(activeLayers) >= 1
    /\ \E i \in 1 .. Len(params.layers) :
          /\ ~params.layers[i].isActive
          /\ params.layers[i].color # <<>>
          /\ processMagicEraser(originalImageData,
                 WithLayers([params.layers EXCEPT ![i].isActive = TRUE]))
               # imageData

\* The list holds a layer without colour next to an active coloured layer
\* that changed the image.
InactiveLayersSkippedNoColourCase ==
    /\ Done
    /\ \E i \in 1 .. Len(params.layers) : params.layers[i].color = <<>>
    /\ Len(activeLayers) >= 1
    /\ imageData # originalImageData

(***************************************************************************)
(* C16  Layer ids are unique: after any sequence of addLayer, removeLayer  *)
(* and AI reset, no two layers of the list passed to processMagicEraser    *)
(* share an id.                                                            *)
(***************************************************************************)
UniqueLayerIds ==
    \A i, j \in 1 .. Len(params.layers) :
       i # j => params.layers[i].id # params.layers[j].id

(***************************************************************************)
(* C17  Per-pixel compositor result: a pixel that starts with alpha        *)
(* a0 > 0 is written min(a0, min over the active layers of the layer's     *)
(* contribution), where the contribution is a function of the layer and    *)
(* the pixel's RGB alone: targetAlpha inside tolerance, the floored        *)
(* interpolation toward 255 in the feather zone, nothing (255) beyond it.  *)
(* A layer applied to any running alpha a gives min(a, contribution).      *)
(***************************************************************************)
Contribution(layer, rgb) ==
    LET dist == colorDistance(rgb[1], rgb[2], rgb[3],
                              layer.color[1], layer.color[2], layer.color[3])
        targetAlpha == TargetAlpha(layer.transparency)
    IN  IF DistLeq(dist, layer.tolerance) THEN targetAlpha
        ELSE IF IsPositive(layer.feather)
                /\ DistLeqBand(dist, layer.tolerance, layer.feather)
             THEN LayerResultAlphaFloor(dist, layer, targetAlpha)
             ELSE 255

RunningAlphas == {64}

MinOfContributions ==
    Composed =>
        \A p \in PixelIndices(imageData) :
           LET rgb == RGBAt(originalImageData, p)
               a0 == AlphaAt(originalImageData, p)
               cs == [k \in 1 .. Len(activeLayers) |->
                         Contribution(activeLayers[k], rgb)]
           IN  a0 > 0 =>
                  /\ AlphaAt(imageData, p) =
                        SetMin({a0} \cup {cs[k] : k \in 1 .. Len(activeLayers)})
                  /\ \A k \in 1 .. Len(activeLayers), a \in RunningAlphas :
                        LayerStep(rgb[1], rgb[2], rgb[3], a, activeLayers[k])
                           = Min(a, cs[k])

\* Two active layers contribute to a pixel, the earlier one less than the
\* later one and both less than the starting alpha; the earlier one's
\* contribution is what is written.
MinOfContributionsWitness ==
    /\ Composed
    /\ \E p \in PixelIndices(imageData) :
          \E i, j \in 1 .. Len(activeLayers) :
             LET rgb == RGBAt(originalImageData, p)
                 ci == Contribution(activeLayers[i], rgb)
                 cj == Contribution(activeLayers[j], rgb)
             IN  /\ i < j
                 /\ ci < cj
                 /\ cj < AlphaAt(originalImageData, p)
                 /\ AlphaAt(imageData, p) = ci

(***************************************************************************)
(* C18  Hard cutoff outside the band: a pixel whose distance to a layer's  *)
(* colour exceeds tolerance/100 + feather/100 is not changed by the layer; *)
(* with feather = 0 the alpha after the layer is the alpha before it or    *)
(* min(alpha, targetAlpha); with tolerance = 0 and feather = 0 only a      *)
(* pixel whose RGB equals the layer's colour is changed.                   *)
(***************************************************************************)
\* dist > tolerance / 100 + feather / 100, compared exactly
DistanceExceeds(d2, tolerance, feather) ==
    LET y == tolerance * feather.den + feather.num
    IN  ~ProdLeq(<<d2, 10000, 10000, feather.den, feather.den>>,
                 <<y, y, MaxDist100, MaxDist100>>)

HardCutoff ==
    Composed =>
        \A p \in PixelIndices(imageData), k \in 1 .. Len(activeLayers) :
           LET rgb == RGBAt(originalImageData, p)
               layer == activeLayers[k]
               d2 == colorDistance(rgb[1], rgb[2], rgb[3],
                                   layer.color[1], layer.color[2], layer.color[3])
               targetAlpha == TargetAlpha(layer.transparency)
           IN  \A a \in {AlphaAt(originalImageData, p), 255} \ {0} :
                  LET after == LayerStep(rgb[1], rgb[2], rgb[3], a, layer)
                  IN  /\ DistanceExceeds(d2, layer.tolerance, layer.feather)
                         => after = a
                      /\ IsZero(layer.feather)
                         => after \in {a, Min(a, targetAlpha)}
                      /\ (layer.tolerance = 0 /\ IsZero(layer.feather) /\ after # a)
                         => rgb = layer.color

\* A layer with tolerance 0 and feather 0 has run on an image: the pixel of
\* exactly its colour was changed, a visible pixel whose colour differs in
\* each channel by at most 5 was not.
HardCutoffWitness ==
    /\ Composed
    /\ \E k \in 1 .. Len(activeLayers) :
          LET layer == activeLayers[k]
          IN  /\ layer.tolerance = 0
              /\ IsZero(layer.feather)
              /\ \E p, q \in PixelIndices(imageData) :
                    /\ RGBAt(originalImageData, p) = layer.color
                    /\ AlphaAt(imageData, p) < AlphaAt(originalImageData, p)
                    /\ RGBAt(originalImageData, q) # layer.color
                    /\ colorDistance(RGBAt(originalImageData, q)[1],
                                     RGBAt(originalImageData, q)[2],
                                     RGBAt(originalImageData, q)[3],
                                     layer.color[1], layer.color[2],
                                     layer.color[3]) <= 75
                    /\ AlphaAt(imageData, q) > 0
                    /\ AlphaAt(imageData, q) = AlphaAt(originalImageData, q)

(***************************************************************************)
(* C19  Feather zone: for a pixel with tolerance < dist <= tolerance +     *)
(* feather/100 and feather > 0, featherDist = (dist - tol) / (feather/100) *)
(* lies in [0,1) and the layer's contribution is                           *)
(* floor(targetAlpha + (255 - targetAlpha) * featherDist).                 *)
(*                                                                         *)
(* FeatherDistBelowOne is the claim as it stands.  FeatherDistAtMostOne is *)
(* what the code gives: featherDist lies in (0,1], the value 1 being taken *)
(* at the outer edge dist = tolerance + feather/100, which the zone        *)
(* includes; the contribution is the floor of the interpolation, 255 at    *)
(* the outer edge.                                                         *)
(***************************************************************************)
InFeatherZone(d2, layer) ==
    /\ ~DistLeq(d2, layer.tolerance)
    /\ IsPositive(layer.feather)
    /\ DistLeqBand(d2, layer.tolerance, layer.feather)

\* tolerance / 100 + feather / 100 <= dist, compared exactly: featherDist >= 1
AtLeastOuterEdge(d2, layer) ==
    LET y == layer.tolerance * layer.feather.den + layer.feather.num
    IN  ProdLeq(<<y, y, MaxDist100, MaxDist100>>,
                <<d2, 10000, 10000, layer.feather.den, layer.feather.den>>)

\* n = floor(targetAlpha + (255 - targetAlpha) * featherDist):
\* n <= the interpolation < n + 1
IsFloorOfInterpolation(n, d2, layer) ==
    LET targetAlpha == TargetAlpha(layer.transparency)
    IN  /\ n >= targetAlpha
        /\ FeatherAtLeast(d2, layer, targetAlpha, n - targetAlpha)
        /\ ~FeatherAtLeast(d2, layer, targetAlpha, n + 1 - targetAlpha)

LayerDistance(p, layer) ==
    LET rgb == RGBAt(originalImageData, p)
    IN  colorDistance(rgb[1], rgb[2], rgb[3],
                      layer.color[1], layer.color[2], layer.color[3])

\* what the layer makes of the pixel's colour at full opacity
OpaqueContribution(p, layer) ==
    LET rgb == RGBAt(originalImageData, p)
    IN  LayerStep(rgb[1], rgb[2], rgb[3], 255, layer)

FeatherOuterEdgeCase ==
    /\ Composed
    /\ \E p \in PixelIndices(imageData), k \in 1 .. Len(activeLayers) :
          /\ InFeatherZone(LayerDistance(p, activeLayers[k]), activeLayers[k])
          /\ AtLeastOuterEdge(LayerDistance(p, activeLayers[k]), activeLayers[k])
          /\ AlphaAt(originalImageData, p) > 0
          /\ AlphaAt(imageData, p) = AlphaAt(originalImageData, p)

(***************************************************************************)
(* C20  A layer with transparency = 0 has targetAlpha 255 and no effect:   *)
(* for every pixel, inside its tolerance or in its feather zone, the alpha *)
(* after the layer is the alpha before it, whatever that alpha is; an      *)
(* image processed with such layers only keeps its alpha channel.          *)
(***************************************************************************)
Opaque(layer) == layer.transparency = 0

TransparencyZeroNoEffect ==
    Composed =>
        /\ \A k \in 1 .. Len(activeLayers), p \in PixelIndices(imageData) :
              LET layer == activeLayers[k]
                  rgb == RGBAt(originalImageData, p)
              IN  Opaque(layer) =>
                     /\ TargetAlpha(layer.transparency) = 255
                     /\ \A a \in {AlphaAt(originalImageData, p), 1, 255} \ {0} :
                           LayerStep(rgb[1], rgb[2], rgb[3], a, layer) = a
        /\ (\A k \in 1 .. Len(activeLayers) : Opaque(activeLayers[k]))
              => imageData = originalImageData

\* A layer with transparency 0 has run on an image with a half-transparent
\* pixel inside its tolerance and a visible pixel in its feather zone.
TransparencyZeroNoEffectWitness ==
    /\ Composed
    /\ \E k \in 1 .. Len(activeLayers) :
          LET layer == activeLayers[k]
          IN  /\ Opaque(layer)
              /\ \E p, q \in PixelIndices(imageData) :
                    /\ DistLeq(LayerDistance(p, layer), layer.tolerance)
                    /\ AlphaAt(originalImageData, p) = 128
                    /\ AlphaAt(imageData, p) = 128
                    /\ InFeatherZone(LayerDistance(q, layer), layer)
                    /\ AlphaAt(originalImageData, q) > 0
                    /\ AlphaAt(imageData, q) = AlphaAt(originalImageData, q)

(***************************************************************************)
(* C21  Early exits are transparent: the output of processMagicEraser is   *)
(* the output of the same code without "if (a === 0) continue", without    *)
(* "if (a === 0) break" in the layer loop and without                      *)
(* "if (minVal === 0) break" in the two window scans.                      *)
(***************************************************************************)
\* The layer loop over every layer, whatever the running alpha.
RECURSIVE LayerLoopNoBreak(_, _, _, _, _, _)
LayerLoopNoBreak(r, g, b, a, layers, k) ==
    IF k > Len(layers) THEN a
    ELSE LayerLoopNoBreak(r, g, b, LayerStep(r, g, b, a, layers[k]), layers, k + 1)

\* The pixel loop over every pixel, transparent ones included.
RECURSIVE PixelLoopNoSkip(_, _, _, _)
PixelLoopNoSkip(data, len, layers, i) ==
    IF i >= len THEN data
    ELSE LET a == LayerLoopNoBreak(data[i], data[i + 1], data[i + 2], data[i + 3],
                                   layers, 1)
         IN  PixelLoopNoSkip([data EXCEPT ![i + 3] = ClampByte(a)],
                             len, layers, i + 4)

\* The window scan up to the end of its window.
RECURSIVE WindowScanNoBreak(_, _, _, _, _, _)
WindowScanNoBreak(src, base, stride, k, end, minVal) ==
    IF k > end THEN minVal
    ELSE LET val == src[base + k * stride]
         IN  WindowScanNoBreak(src, base, stride, k + 1, end,
                               IF val < minVal THEN val ELSE minVal)

HorizontalMinNoBreak(src, width, height, r) ==
    [j \in 0 .. width * height - 1 |->
        LET y == j \div width
            x == j % width
        IN  WindowScanNoBreak(src, y * width, 1, WindowStart(x, r),
                              WindowEnd(width, x, r), 255)]

RECURSIVE VerticalMinNoBreak(_, _, _, _, _, _)
VerticalMinNoBreak(data, temp, width, height, r, n) ==
    IF n >= width * height THEN data
    ELSE LET x == n \div height
             y == n % height
             minVal == WindowScanNoBreak(temp, x, width, WindowStart(y, r),
                                         WindowEnd(height, y, r), 255)
             idx == (y * width + x) * 4
         IN  VerticalMinNoBreak(IF data[idx + 3] > minVal
                                THEN [data EXCEPT ![idx + 3] = ClampByte(minVal)]
                                ELSE data,
                                temp, width, height, r, n + 1)

processMagicEraserNoExit(image, p) ==
    LET active == FilterActive(p.layers, 1)
        composed == IF Len(active) > 0
                    THEN PixelLoopNoSkip(image.data, DataLength(image.data), active, 0)
                    ELSE image.data
        r == Ceil(p.choke)
        temp == HorizontalMinNoBreak(CopyAlpha(composed, image.width * image.height),
                                     image.width, image.height, r)
    IN  [image EXCEPT !.data =
            IF IsPositive(p.choke)
            THEN VerticalMinNoBreak(composed, temp, image.width, image.height, r, 0)
            ELSE composed]

EarlyExitsTransparent ==
    Done => imageData = processMagicEraserNoExit(originalImageData, params)

\* A finished call that skipped a transparent pixel and left a horizontal
\* window scan at a 0 before the end of the window.
EarlyExitsTransparentWitness ==
    /\ Done
    /\ Len(activeLayers) > 0
    /\ IsPositive(params.choke)
    /\ \E p \in PixelIndices(originalImageData) :
          AlphaAt(originalImageData, p) = 0
    /\ \E j \in DOMAIN originalAlpha :
          LET x == j % imageData.width
              rowOffset == (j \div imageData.width) * imageData.width
              start == WindowStart(x, Ceil(params.choke))
              end == WindowEnd(imageData.width, x, Ceil(params.choke))
          IN  /\ start < end
              /\ originalAlpha[rowOffset + start] = 0
              /\ originalAlpha[rowOffset + end] > 0

\* A finished call whose layer loop stopped at alpha 0 before its last layer,
\* a layer that is inside tolerance of the pixel.
EarlyExitsLayerBreakCase ==
    /\ Done
    /\ Len(activeLayers) = 2
    /\ \E p \in PixelIndices(originalImageData) :
          LET rgb == RGBAt(originalImageData, p)
              a == AlphaAt(originalImageData, p)
          IN  /\ a > 0
              /\ LayerStep(rgb[1], rgb[2], rgb[3], a, activeLayers[1]) = 0
              /\ DistLeq(LayerDistance(p, activeLayers[2]), activeLayers[2].tolerance)

(***************************************************************************)
(* C22  Choke pass ordering: when the vertical pass begins, every cell of  *)
(* tempAlpha holds the minimum of its row window of originalAlpha, the     *)
(* snapshot of the alpha channel taken before the horizontal pass, and the *)
(* pixel buffer is still untouched; when the vertical pass has ended,      *)
(* every pixel holds the smaller of its own snapshot value and the minimum *)
(* of its column window of tempAlpha, so no alpha written back during the  *)
(* vertical pass was read by a later window.                               *)
(***************************************************************************)
PixelX(p) == p % imageData.width
PixelY(p) == p \div imageData.width

RowMinimum(p) ==
    SetMin({255} \cup { originalAlpha[c[2]] :
                        c \in HorizontalWindow(PixelX(p), PixelY(p), Ceil(params.choke)) })

ColumnMinimum(p) ==
    SetMin({255} \cup { tempAlpha[c[2]] :
                        c \in VerticalWindow(PixelX(p), PixelY(p), Ceil(params.choke)) })

ChokePassOrdering ==
    /\ pc = "horizontal" =>
          /\ originalAlpha = AlphaChannel(imageData)
          /\ \A p \in PixelIndices(imageData) : tempAlpha[p] = 0
    /\ pc = "vertical" =>
          /\ originalAlpha = AlphaChannel(imageData)
          /\ DOMAIN tempAlpha = PixelIndices(imageData)
          /\ \A p \in PixelIndices(imageData) : tempAlpha[p] = RowMinimum(p)
    /\ Choked =>
          /\ \A p \in PixelIndices(imageData) :
                /\ tempAlpha[p] = RowMinimum(p)
                /\ AlphaAt(imageData, p) = Min(originalAlpha[p], ColumnMinimum(p))

\* The horizontal pass had lowered a cell of tempAlpha below the snapshot
\* and the vertical pass has lowered another pixel to that cell's value.
ChokePassOrderingBothPassesCase ==
    /\ Choked
    /\ \E p, q \in PixelIndices(imageData) :
          /\ tempAlpha[p] < originalAlpha[p]
          /\ PixelX(q) = PixelX(p)
          /\ PixelY(q) # PixelY(p)
          /\ tempAlpha[p] < tempAlpha[q]
          /\ AlphaAt(imageData, q) = tempAlpha[p]

\* The vertical pass has lowered a pixel below its cell of tempAlpha, and
\* the pixel below it, whose window contains that pixel, has ended with a
\* higher alpha than was written back there.
ChokePassOrderingWitness ==
    /\ Choked
    /\ \E p, q \in PixelIndices(imageData) :
          /\ PixelX(q) = PixelX(p)
          /\ PixelY(q) = PixelY(p) + 1
          /\ AlphaAt(imageData, p) < tempAlpha[p]
          /\ AlphaAt(imageData, p) < AlphaAt(imageData, q)

(***************************************************************************)
(* C23  Pixel independence: with the rows of the compositor, the rows of   *)
(* the horizontal pass and the columns of the vertical pass processed by   *)
(* workers in any order, a processed pixel of the compositor holds a value *)
(* computed from its own RGBA and the layer list, a processed row of       *)
(* tempAlpha holds the minima of that row of originalAlpha, a processed    *)
(* column holds the minima of that column of tempAlpha, what is not yet    *)
(* processed is untouched, and the finished buffer is the buffer of the    *)
(* sequential loops.                                                       *)
(***************************************************************************)
\* the alpha the compositor gives a pixel, from the pixel alone
OwnPixelAlpha(p) ==
    LET rgb == RGBAt(originalImageData, p)
        a == AlphaAt(originalImageData, p)
    IN  IF a = 0 \/ Len(activeLayers) = 0 THEN a
        ELSE LayerLoop(rgb[1], rgb[2], rgb[3], a, activeLayers, 1)

PixelIndependence ==
    /\ pc = "layers" =>
          \A p \in PixelIndices(imageData) :
             AlphaAt(imageData, p) =
                IF PixelY(p) \in pending THEN AlphaAt(originalImageData, p)
                ELSE OwnPixelAlpha(p)
    /\ pc = "horizontal" =>
          \A p \in PixelIndices(imageData) :
             /\ AlphaAt(imageData, p) = OwnPixelAlpha(p)
             /\ tempAlpha[p] = IF PixelY(p) \in pending THEN 0 ELSE RowMinimum(p)
    /\ pc = "vertical" =>
          \A p \in PixelIndices(imageData) :
             AlphaAt(imageData, p) =
                IF PixelX(p) \in pending THEN originalAlpha[p]
                ELSE Min(originalAlpha[p], ColumnMinimum(p))
    /\ Done => imageData = processMagicEraser(originalImageData, params)

\* The workers have finished a call with layers and choke on an image of
\* two rows and two columns, on which both stages have lowered alpha.
PixelIndependenceWitness ==
    /\ Choked
    /\ imageData.width >= 2
    /\ imageData.height >= 2
    /\ Len(activeLayers) > 0
    /\ \E p \in PixelIndices(imageData) :
          /\ originalAlpha[p] < AlphaAt(originalImageData, p)
          /\ 0 < originalAlpha[p]
    /\ \E p \in PixelIndices(imageData) : AlphaAt(imageData, p) < originalAlpha[p]

\* A later row of the compositor has been processed before an earlier one.
PixelIndependenceOutOfOrderCase ==
    /\ pc = "layers"
    /\ \E y1, y2 \in Rows(imageData) :
          y1 < y2 /\ y1 \in pending /\ y2 \notin pending
    /\ \E p \in PixelIndices(imageData) :
          AlphaAt(imageData, p) < AlphaAt(originalImageData, p)

(***************************************************************************)
(* C24  Compositor idempotence: with choke = 0, processMagicEraser applied *)
(* to its own output with the same layer list returns that output.         *)
(***************************************************************************)
CompositorIdempotence ==
    (Done /\ IsZero(params.choke)) =>
        processMagicEraser(imageData, params) = imageData

\* A call with choke = 0 has lowered a pixel to an alpha between 0 and its
\* input alpha, inside tolerance or in the feather zone of a layer.
CompositorIdempotenceWitness ==
    /\ Done
    /\ IsZero(params.choke)
    /\ Len(activeLayers) > 0
    /\ \E p \in PixelIndices(imageData) :
          /\ 0 < AlphaAt(imageData, p)
          /\ AlphaAt(imageData, p) < AlphaAt(originalImageData, p)

\* The same, with the pixel in the feather zone of a layer.
CompositorIdempotenceFeatherCase ==
    /\ CompositorIdempotenceWitness
    /\ \E p \in PixelIndices(imageData), k \in 1 .. Len(activeLayers) :
          /\ InFeatherZone(LayerDistance(p, activeLayers[k]), activeLayers[k])
          /\ 0 < AlphaAt(imageData, p)
          /\ AlphaAt(imageData, p) < AlphaAt(originalImageData, p)

(***************************************************************************)
(* C25  Non-destructive editing: in BackgroundRemoverEditor, after any     *)
(* sequence of layer edits, colour picks, choke changes and AI removals    *)
(* the canvas shows processMagicEraser(originalImageData, current layers,  *)
(* current choke), and originalImageData is the image as loaded or as the  *)
(* AI removal returned it, never a processed one.                          *)
(***************************************************************************)
CurrentParams == [layers |-> editorLayers, choke |-> Rational(globalChoke, 1)]

NonDestructiveEditing ==
    /\ originalImageData \in {EditorImage, AiResult}
    /\ imageData = processMagicEraser(originalImageData, CurrentParams)

\* The choke is back at 0 after edits: a layer has a picked colour and a
\* moved slider, and the canvas shows a picture that differs from the
\* original and from the picture the same layers give with choke 1.
NonDestructiveEditingWitness ==
    /\ globalChoke = 0
    /\ \E k \in 1 .. Len(editorLayers) :
          /\ HasColor(editorLayers[k])
          /\ editorLayers[k].transparency = 50
    /\ imageData # originalImageData
    /\ imageData # processMagicEraser(originalImageData,
                                      [CurrentParams EXCEPT !.choke = Rational(1, 1)])

\* The choke is raised, and the canvas shows the eroded picture.
NonDestructiveEditingChokeCase ==
    /\ globalChoke = 1
    /\ \E k \in 1 .. Len(editorLayers) : HasColor(editorLayers[k])
    /\ imageData # processMagicEraser(originalImageData,
                                      [CurrentParams EXCEPT !.choke = Rational(0, 1)])

(***************************************************************************)
(* C26  Editor layer-list invariant: as long as the layer ids are          *)
(* distinct, after every addLayer, removeLayer, layer selection, canvas    *)
(* click, slider update and AI reset the layer list is non-empty and       *)
(* activeLayerId is the id of a layer of the list; and removing the only   *)
(* layer leaves the single default layer (id '1', no colour, tolerance 20, *)
(* feather 2, transparency 100, active), selected.                         *)
(***************************************************************************)
LayerIds(ls) == { ls[k].id : k \in 1 .. Len(ls) }

ActiveLayerListed ==
    /\ Len(editorLayers) >= 1
    /\ activeLayerId \in LayerIds(editorLayers)

TheDefaultLayer ==
    [id |-> "1", color |-> <<>>, tolerance |-> 20, feather |-> Rational(2, 1),
     transparency |-> 100, isActive |-> TRUE]

\* a step of removeLayer on a list of one layer
LastLayerRemoved ==
    /\ Len(editorLayers) = 1
    /\ \E i \in 1 .. Len(editorLayers) : removeLayer(i)

LayerListInvariant ==
    /\ ([]Distinct(editorLayers)) => []ActiveLayerListed
    /\ [][LastLayerRemoved
             => (editorLayers' = <<TheDefaultLayer>> /\ activeLayerId' = "1")]_vars

\* The invariant without its proviso, which duplicate ids violate (C16).
ActiveLayerAlwaysListed == []ActiveLayerListed

\* Two layers with distinct ids, the second added by addLayer, of which the
\* first is selected and has a picked colour.
LayerListInvariantWitness ==
    /\ Len(editorLayers) = 2
    /\ Distinct(editorLayers)
    /\ activeLayerId = editorLayers[1].id
    /\ HasColor(editorLayers[1])
    /\ ActiveLayerListed

\* The only layer, an edited one, is about to be removed.
LayerListInvariantLastLayerCase ==
    /\ Len(editorLayers) = 1
    /\ editorLayers[1] # DefaultLayer
    /\ activeLayerId = editorLayers[1].id
    /\ mode = "magic"

(***************************************************************************)
(* C27  Colour picking: in magic mode a click at any position inside the   *)
(* image, the last pixel of the last row included, leaves the layer list   *)
(* with the colour of the active layer set to the RGB of originalImageData *)
(* at the pixel under the click and every other layer and field as it was; *)
(* in ai mode a click leaves the layer list as it was.                     *)
(***************************************************************************)
PixelUnder(x, y) == Floor(y) * originalImageData.width + Floor(x)

WithPickedColour(x, y) ==
    [k \in 1 .. Len(editorLayers) |->
        IF editorLayers[k].id = activeLayerId
        THEN [editorLayers[k] EXCEPT !.color = RGBAt(originalImageData, PixelUnder(x, y))]
        ELSE editorLayers[k]]

ColourPicking ==
    \A x \in HalfPixels(originalImageData.width),
       y \in HalfPixels(originalImageData.height) :
       /\ mode = "magic" => LayersAfterClick(x, y) = WithPickedColour(x, y)
       /\ mode = "ai" => LayersAfterClick(x, y) = editorLayers

\* The same for the clicks on every pixel but the last one of the buffer.
ColourPickingButLastPixel ==
    \A x \in HalfPixels(originalImageData.width),
       y \in HalfPixels(originalImageData.height) :
       PixelUnder(x, y) # NumPixels(originalImageData) - 1 =>
          /\ mode = "magic" => LayersAfterClick(x, y) = WithPickedColour(x, y)
          /\ mode = "ai" => LayersAfterClick(x, y) = editorLayers

\* A colour has been picked from the first pixel into the active layer.
ColourPickedCase ==
    /\ mode = "magic"
    /\ \E k \in 1 .. Len(editorLayers) :
          /\ editorLayers[k].id = activeLayerId
          /\ editorLayers[k].color = RGBAt(originalImageData, 0)

(***************************************************************************)
(* C28  AI removal always releases its busy flag: whenever isProcessing is *)
(* true it becomes false again later, whether the removal succeeds, the    *)
(* removal throws or the result image fails to load.                       *)
(***************************************************************************)
AiBusyReleased == isProcessing ~> ~isProcessing

\* The same, but for a result image that fails to load.
AiBusyReleasedUnlessAbandoned ==
    isProcessing ~> (~isProcessing \/ aiStage = "abandoned")

\* handleAiRemove waits for a result image that has failed to load.
AiAbandonedCase == isProcessing /\ aiStage = "abandoned"

(***************************************************************************)
(* C29  removeBackgroundColor only makes pixels more transparent: for      *)
(* every pixel the alpha after the pass is at most the alpha before the    *)
(* pass, also in the smooth-transition band between tolerance and twice    *)
(* the tolerance, and a pixel with alpha 0 stays at 0.                     *)
(***************************************************************************)
OnlyMoreTransparent ==
    [][RemoveBackgroundPass =>
          \A p \in PixelIndices(fgImageData) :
             /\ AlphaAt(fgImageData', p) <= AlphaAt(fgImageData, p)
             /\ AlphaAt(fgImageData, p) = 0 => AlphaAt(fgImageData', p) = 0]_vars

\* The part of C29 that the pass keeps: transparent pixels stay transparent,
\* opaque pixels are never raised, and nothing outside the smooth-transition
\* band is raised.
InSmoothBand(image, p, bg) ==
    LET rgb == RGBAt(image, p)
        d2 == SquaredDiff(rgb[1], rgb[2], rgb[3], bg)
    IN  /\ d2 > RemoverTolerance * RemoverTolerance
        /\ d2 <= (RemoverTolerance * 2) * (RemoverTolerance * 2)

OnlyMoreTransparentOutsideBand ==
    [][RemoveBackgroundPass =>
          \A p \in PixelIndices(fgImageData) :
             /\ AlphaAt(fgImageData, p) = 0 => AlphaAt(fgImageData', p) = 0
             /\ ~InSmoothBand(fgImageData, p, bgSample)
                   => AlphaAt(fgImageData', p) <= AlphaAt(fgImageData, p)]_vars

\* The pass has run on an image with a faint pixel in the smooth-transition
\* band.
FaintPixelInBandCase ==
    /\ removerPc = "done"
    /\ bgSample.validPixels > 0
    /\ \E p \in PixelIndices(fgImageData) :
          /\ RGBAt(fgImageData, p) = LightGrey
          /\ InSmoothBand(fgImageData, p, bgSample)

(***************************************************************************)
(* C30  No blank screen in App: after any sequence of navigation callbacks *)
(* starting from the dashboard, in the views mode-selection, auto-editor   *)
(* and manual-editor the file is non-null, in completion resultImage is    *)
(* non-null, in android-editor androidProject is non-null, and in          *)
(* android-completion androidResultImages is non-null.                     *)
(***************************************************************************)
NoBlankScreen ==
    /\ view \in {"mode-selection"} \cup StandardEditors => file # Null
    /\ view = "completion" => resultImage # Null
    /\ view = "android-editor" => androidProject # Null
    /\ view = "android-completion" => androidResultImages # Null

\* An export image is still loading although its editor is no longer
\* rendered.
StaleExport == exportPending # {} /\ view \notin StandardEditors

\* The part of C30 that App keeps: as long as no export outlives its editor,
\* no view is blank.
NoBlankScreenWithoutStaleExport == ([]~StaleExport) => []NoBlankScreen

\* Every guarded view has been shown with its datum, coming back from a
\* completion screen.
GuardedViewsCase ==
    /\ view = "mode-selection"
    /\ file # Null
    /\ resultImage # Null
    /\ exportPending = {}

====
